---- MODULE Spec2Model ----
(***************************************************************************)
(* A model of the air-traffic-control simulator: the Runway, Aircraft and  *)
(* Flight classes, the SimulationController with its Airline fleets, and   *)
(* the stand-alone FlightScheduler of the monolithic source.               *)
(*                                                                         *)
(* Several specifications share the variables.  Each one exercises one     *)
(* layer of the program and leaves the other layers' variables alone:      *)
(*   SpecRunway  the public interface of one Runway object                 *)
(***************************************************************************)
EXTENDS Integers, Sequences, FiniteSets, TLC

(***************************************************************************)
(* Bounds of the model.                                                    *)
(***************************************************************************)
NumAircraft == 3
MaxClock == 3
MaxUsage == 2
MaxAttempts == 2
MaxDrift == 2
MaxSimTime == 1500
TickStep == 750

MaxSchedTime == 125

MaxCtlFlights == 8

MaxCtlAircraft == 8

MaxDenied == 8

MaxCycles == 1

MaxCtlTime == 1200

MaxFaults == 1

MaxEmergencies == 0

MaxUnflown == 2

\* The standard deviation of the speed noise of Aircraft::update, in km/h.
SpeedStdDev == 2

(***************************************************************************)
(* Enumerations of Constants.h and Runway.h.                               *)
(***************************************************************************)
AircraftType == {"COMMERCIAL", "CARGO", "EMERGENCY"}
FlightDirection == {"NORTH", "SOUTH", "EAST", "WEST"}
RunwayId == {"RWY_A", "RWY_B", "RWY_C"}
RunwayStatus == {"AVAILABLE", "IN_USE", "MAINTENANCE", "WEATHER_CLOSED"}

\* An empty optional runway id or an empty weak_ptr to a runway.
Null == "null"

\* A null shared_ptr to an aircraft.
nullptr == 0

VARIABLES
    runways,     \* RunwayId -> the fields of that Runway object
    aircraft,    \* aircraft id -> the fields of that Aircraft object
    steadyNow,   \* std::chrono::steady_clock::now(), in seconds
    subject,     \* the Runway object a Runway-level behaviour calls into
    lastCall,    \* the most recent call on an object and what it returned
    granted,     \* RunwayId -> the counters before the last successful assign
    runwayMutex, \* RunwayId -> the thread that holds Runway::m_mutex, or "free"
    task         \* controller thread -> where it is inside a Runway call

runwayVars == <<runways, aircraft, steadyNow, subject, lastCall, granted>>

concVars == <<runwayMutex, task>>

VARIABLES
    flights,     \* the controller's m_flights: a sequence of Flight objects
    simTime,     \* the simulation clock handed to Flight calls, in 0.1 s
    relock,      \* what locking a std::mutex the thread already owns does
    noise        \* the speed changes Aircraft::update draws from in this run

flightVars == <<flights, simTime, relock, noise>>

VARIABLES
    scheduler    \* the members of the FlightScheduler object of source.cpp

schedVars == <<scheduler>>

VARIABLES
    airlines,    \* the controller's m_airlines: per airline, fleet and last schedule time
    controller,  \* the members of the SimulationController object
    worker,      \* thread of the controller -> where it is in its loop
    overload     \* what createAircraft(direction, AircraftType::CARGO) does

ctlVars == <<airlines, controller, worker, overload>>

VARIABLES
    monitor,     \* the members of the SpeedMonitor object, and the AVNs it issued
    billing,     \* the AVN objects of source.cpp and the processes they travel to
    scheduleLog, \* history: the calls of Airline::scheduleFlightIfNeeded that returned true
    locking      \* a thread's call stack and the mutexes its lock_guards hold

serviceVars == <<monitor, billing, scheduleLog, locking>>

\* The variables of the layers that no Runway, Aircraft or Flight call touches.
aboveFlight == <<schedVars, ctlVars, serviceVars>>

vars == <<runwayVars, concVars, flightVars, aboveFlight>>

\* What the calls of each layer leave alone.
outsideRunway == <<concVars, flightVars, aboveFlight>>

outsideConc == <<flightVars, aboveFlight>>

outsideFlight == <<concVars, aboveFlight>>

AircraftIds == 1..NumAircraft

(***************************************************************************)
(* The controller threads that call into runways: simulationLoop,          *)
(* flightGenerationLoop and deniedFlightLoop.                              *)
(***************************************************************************)
Tasks == {"simulation", "generator", "denied"}

IdleTask == [pc |-> "idle", holds |-> FALSE, attempts |-> 0, releases |-> 0]

(***************************************************************************)
(* Runway::Runway                                                          *)
(***************************************************************************)
NewRunway ==
    [status |-> "AVAILABLE", assignedAircraft |-> nullptr, usageCount |-> 0,
     totalUsageTime |-> 0, lastAssignmentTime |-> steadyNow]

(***************************************************************************)
(* Runway::isValidRunwayForDirection / isValidRunwayForAircraftType        *)
(***************************************************************************)
\* A variant that lets every direction onto every runway.
isValidRunwayForAnyDirection(id, direction) == id \in RunwayId

isValidRunwayForDirection(id, direction) ==
    CASE id = "RWY_A" -> direction \in {"NORTH", "SOUTH"}
      [] id = "RWY_B" -> direction \in {"EAST", "WEST"}
      [] id = "RWY_C" -> TRUE
      [] OTHER -> FALSE

isValidRunwayForAircraftType(id, type) ==
    CASE id = "RWY_A" -> TRUE
      [] id = "RWY_B" -> TRUE
      [] id = "RWY_C" -> type \in {"CARGO", "EMERGENCY"}
      [] OTHER -> FALSE

canUseForDirection(r, direction) == isValidRunwayForDirection(r, direction)

canUseForAircraftType(r, type) == isValidRunwayForAircraftType(r, type)

isAvailable(r) == runways[r].status = "AVAILABLE"

(***************************************************************************)
(* Aircraft::Aircraft: the fields of a new aircraft.  The phase comes from *)
(* setInitialPhase and the speed from setInitialSpeed.                     *)
(***************************************************************************)
isArrivalDirection(direction) == direction \in {"NORTH", "SOUTH"}

setInitialPhase(direction) ==
    IF isArrivalDirection(direction) THEN "HOLDING" ELSE "AT_GATE_DEPARTURE"

\* SPEED_LIMITS of Constants.h, in km/h.
SPEED_LIMITS ==
    [HOLDING |-> [min |-> 400, max |-> 600],
     APPROACH |-> [min |-> 240, max |-> 290],
     LANDING |-> [min |-> 30, max |-> 240],
     TAXI_IN |-> [min |-> 15, max |-> 30],
     AT_GATE_ARRIVAL |-> [min |-> 0, max |-> 5],
     AT_GATE_DEPARTURE |-> [min |-> 0, max |-> 5],
     TAXI_OUT |-> [min |-> 15, max |-> 30],
     TAKEOFF_ROLL |-> [min |-> 0, max |-> 290],
     CLIMB |-> [min |-> 250, max |-> 463],
     CRUISE |-> [min |-> 800, max |-> 900]]

FlightPhase == DOMAIN SPEED_LIMITS

\* The values a uniform draw from [min, max] is sampled at.
generateRandomSpeedForPhase(phase) ==
    {SPEED_LIMITS[phase].min, SPEED_LIMITS[phase].max}

NewAircraft(type, direction, speed) ==
    [type |-> type, direction |-> direction,
     currentPhase |-> setInitialPhase(direction), currentSpeed |-> speed,
     assignedRunway |-> Null, hasGroundFault |-> FALSE]

(***************************************************************************)
(* Runway::assignAircraft on the runway r whose fields are rw.  The four   *)
(* refusals come first, in the order of the code; only then are the fields *)
(* written.                                                                *)
(***************************************************************************)
assignAircraftAccepts(r, rw, a) ==
    /\ rw.status = "AVAILABLE"
    /\ a # nullptr
    /\ canUseForDirection(r, aircraft[a].direction)
    /\ canUseForAircraftType(r, aircraft[a].type)

\* A variant that forgets to count the use.
AfterAssignUncounted(rw, a) ==
    [rw EXCEPT !.assignedAircraft = a, !.status = "IN_USE",
               !.lastAssignmentTime = steadyNow]

AfterAssign(rw, a) ==
    [rw EXCEPT !.assignedAircraft = a, !.status = "IN_USE",
               !.lastAssignmentTime = steadyNow, !.usageCount = @ + 1]

\* Aircraft::assignRunway, called by Runway::assignAircraft.
AircraftAfterAssign(r, a) == [aircraft EXCEPT ![a].assignedRunway = r]

(***************************************************************************)
(* Runway::releaseAircraft.                                                *)
(***************************************************************************)
\* A variant that lets any caller release a runway that is in use.
releaseAcceptsAnyCaller(rw, a) == rw.status = "IN_USE"

releaseAircraftAccepts(rw, a) ==
    /\ rw.status = "IN_USE"
    /\ rw.assignedAircraft # nullptr
    /\ rw.assignedAircraft = a

\* duration_cast<seconds>(now - m_lastAssignmentTime)
UsageDuration(rw) == steadyNow - rw.lastAssignmentTime

AfterRelease(rw) ==
    [rw EXCEPT !.totalUsageTime = @ + UsageDuration(rw),
               !.assignedAircraft = nullptr, !.status = "AVAILABLE"]

(***************************************************************************)
(* Runway::setStatus.                                                      *)
(***************************************************************************)
AfterSetStatus(rw, status) ==
    LET forced == /\ rw.status = "IN_USE"
                  /\ status \in {"MAINTENANCE", "WEATHER_CLOSED"}
                  /\ rw.assignedAircraft # nullptr
    IN  [rw EXCEPT !.totalUsageTime = IF forced THEN @ + UsageDuration(rw) ELSE @,
                   !.status = status,
                   !.assignedAircraft = IF status # "IN_USE" THEN nullptr ELSE @]

(***************************************************************************)
(* source.cpp, the single-file build the README lists, has its own         *)
(* arbiter, FlightScheduler.  No FlightScheduler runs in the               *)
(* specifications of the Runway, Aircraft and Flight classes.              *)
(***************************************************************************)
\* FlightScheduler::FlightScheduler.  Flights are named by their index in
\* allFlights; a queue is the set of the flights in it, and its top is found
\* by CompareAircraftPriority.
NewFlightScheduler ==
    [currentSimulationTime |-> 0,
     lastGeneration |-> [d \in FlightDirection |-> 0],
     allFlights |-> <<>>,
     activeFlights |-> <<>>,
     runwayQueue |-> [r \in RunwayId |-> {}],
     runwayAvailable |-> [r \in RunwayId |-> TRUE],
     runwayOccupant |-> [r \in RunwayId |-> nullptr],
     runwayFreeTime |-> [r \in RunwayId |-> 0]]

NoScheduler == scheduler = NewFlightScheduler

\* SpeedMonitor::SpeedMonitor: no speed history and no violation records.
\* activeAVNs is the m_activeAVNs of each aircraft the monitor has looked at.
NewSpeedMonitor ==
    [speedHistory |-> <<>>, violations |-> <<>>, activeAVNs |-> <<>>,
     currentTime |-> 0]

NewBilling == [avns |-> <<>>]

\* A thread that is in no call and holds no mutex.
NoLocking ==
    [stack |-> <<>>, held |-> <<>>, blocked |-> FALSE,
     last |-> [lock |-> "none", before |-> <<>>]]

NoServices ==
    /\ monitor = NewSpeedMonitor
    /\ billing = NewBilling
    /\ scheduleLog = {}
    /\ locking = NoLocking


(***************************************************************************)
(* SimulationController with its airlines.  AIRLINES is the roster of      *)
(* Constants.h; an aircraft is named by its index in aircraft, a flight by *)
(* its index in m_flights.                                                 *)
(***************************************************************************)
AIRLINES ==
    <<[name |-> "PIA", type |-> "COMMERCIAL", aircrafts |-> 6, flights |-> 4],
      [name |-> "AirBlue", type |-> "COMMERCIAL", aircrafts |-> 4, flights |-> 4],
      [name |-> "FedEx", type |-> "CARGO", aircrafts |-> 3, flights |-> 2],
      [name |-> "Pakistan Airforce", type |-> "EMERGENCY", aircrafts |-> 2, flights |-> 1],
      [name |-> "Blue Dart", type |-> "CARGO", aircrafts |-> 2, flights |-> 2],
      [name |-> "AghaKhan Air", type |-> "EMERGENCY", aircrafts |-> 2, flights |-> 1]>>

\* The threads of the controller: the caller of initialize() and start(),
\* and the four loops start() launches.
Threads == {"main", "simulation", "generator", "monitoring", "denied"}

\* Airline::Airline(info.name, info.type, info.aircrafts, info.flights): the
\* fleet map starts empty and m_activeFlights starts at info.flights.
NewAirline(i) ==
    [fleet |-> {}, activeFlights |-> AIRLINES[i].flights,
     lastFlightScheduleTime |-> 0]

\* SIMULATION_DURATION, 300 s, in tenths of a second
SIMULATION_DURATION == 300 * 10

\* SimulationController::SimulationController(simulationDuration), with the
\* default of its parameter.  turn is the thread that is inside one of the
\* controller's calls.
NewController ==
    [activeCargoFlights |-> 0, deniedFlights |-> <<>>, isRunning |-> FALSE,
     isPaused |-> FALSE, isCompleted |-> FALSE,
     simulationDuration |-> SIMULATION_DURATION, turn |-> "none"]

\* A thread outside any call: cycles counts the iterations of its loop.
NewWorker(pc) == [pc |-> pc, index |-> 0, flight |-> 0, cycles |-> 0]

NoController ==
    /\ airlines = [i \in DOMAIN AIRLINES |-> NewAirline(i)]
    /\ controller = NewController
    /\ worker = [t \in Threads |->
                     NewWorker(IF t = "main" THEN "constructed" ELSE "idle")]
    /\ overload = "type"

(***************************************************************************)
(* No Flight object exists in the Runway-level specifications.             *)
(***************************************************************************)
NoFlights ==
    /\ flights = <<>>
    /\ simTime = 0
    /\ relock = "proceeds"
    /\ noise = {0}

(***************************************************************************)
(* The calls of the Runway-level specification.  Each records itself in    *)
(* lastCall: the runway, the argument, the fields of the runway when the   *)
(* call was made, and the value returned.  A successful assignAircraft     *)
(* also records in granted what the runway's counters were before it.      *)
(***************************************************************************)
Call(op, r, a, status, result) ==
    [op |-> op, runway |-> r, arg |-> a, status |-> status,
     pre |-> IF r = Null THEN NewRunway ELSE runways[r], result |-> result]

NoCall == Call("none", Null, nullptr, Null, FALSE)

NoGrant == [arg |-> nullptr, usageCount |-> 0, totalUsageTime |-> 0]

assignAircraft(r, a) ==
    /\ runways[r].usageCount < MaxUsage
    /\ IF assignAircraftAccepts(r, runways[r], a)
       THEN /\ runways' = [runways EXCEPT ![r] = AfterAssign(@, a)]
            /\ aircraft' = AircraftAfterAssign(r, a)
            /\ lastCall' = Call("assignAircraft", r, a, Null, TRUE)
            /\ granted' = [granted EXCEPT ![r] =
                              [arg |-> a,
                               usageCount |-> runways[r].usageCount,
                               totalUsageTime |-> runways[r].totalUsageTime]]
       ELSE /\ lastCall' = Call("assignAircraft", r, a, Null, FALSE)
            /\ UNCHANGED <<runways, aircraft, granted>>
    /\ UNCHANGED <<steadyNow, subject, outsideRunway>>

releaseAircraft(r, a) ==
    /\ IF releaseAircraftAccepts(runways[r], a)
       THEN /\ runways' = [runways EXCEPT ![r] = AfterRelease(@)]
            /\ lastCall' = Call("releaseAircraft", r, a, Null, TRUE)
       ELSE /\ lastCall' = Call("releaseAircraft", r, a, Null, FALSE)
            /\ UNCHANGED runways
    /\ UNCHANGED <<aircraft, steadyNow, subject, granted, outsideRunway>>

setStatus(r, status) ==
    /\ runways' = [runways EXCEPT ![r] = AfterSetStatus(@, status)]
    /\ lastCall' = Call("setStatus", r, nullptr, status, TRUE)
    /\ UNCHANGED <<aircraft, steadyNow, subject, granted, outsideRunway>>

\* The steady clock advances by whole seconds and never goes back.
SteadyTick ==
    /\ steadyNow < MaxClock
    /\ steadyNow' = steadyNow + 1
    /\ UNCHANGED <<runways, aircraft, subject, lastCall, granted, outsideRunway>>

(***************************************************************************)
(* The aircraft the Runway-level callers pass in: every kind and every     *)
(* direction occurs among them.                                            *)
(***************************************************************************)
RosterType(a) ==
    CASE a % 3 = 1 -> "COMMERCIAL" [] a % 3 = 2 -> "CARGO" [] OTHER -> "EMERGENCY"

RosterDirection(a) ==
    CASE a % 4 = 1 -> "NORTH" [] a % 4 = 2 -> "EAST"
      [] a % 4 = 3 -> "SOUTH" [] OTHER -> "WEST"

InitRunway ==
    /\ steadyNow = 0
    /\ runways = [r \in RunwayId |-> NewRunway]
    /\ aircraft = [a \in AircraftIds |->
                      NewAircraft(RosterType(a), RosterDirection(a),
                                  SPEED_LIMITS[setInitialPhase(RosterDirection(a))].min)]
    /\ subject \in RunwayId
    /\ lastCall = NoCall
    /\ granted = [r \in RunwayId |-> NoGrant]
    /\ runwayMutex = [r \in RunwayId |-> "free"]
    /\ task = [t \in Tasks |-> IdleTask]
    /\ NoFlights
    /\ NoScheduler
    /\ NoServices
    /\ NoController

NextRunway ==
    \/ \E a \in AircraftIds \cup {nullptr} : assignAircraft(subject, a)
    \/ \E a \in AircraftIds \cup {nullptr} : releaseAircraft(subject, a)
    \/ \E s \in RunwayStatus : setStatus(subject, s)
    \/ SteadyTick

SpecRunway == InitRunway /\ [][NextRunway]_vars

(***************************************************************************)
(* Runway::assignAircraft and Runway::releaseAircraft statement by         *)
(* statement, as the three controller threads run them against one runway. *)
(* std::lock_guard blocks a thread until m_mutex is free.                  *)
(***************************************************************************)
\* A lock that excludes nobody.
MutexIgnored(r) == TRUE

MutexFree(r) == runwayMutex[r] = "free"

\* The aircraft each thread is trying to place.
TaskAircraft(t) ==
    CASE t = "simulation" -> 1 [] t = "generator" -> 2 [] OTHER -> 3

Goto(t, pc) == [task EXCEPT ![t].pc = pc]

\* A thread enters assignAircraft with its aircraft.
CallAssign(t) ==
    /\ task[t].pc = "idle"
    /\ ~task[t].holds
    /\ task[t].attempts < MaxAttempts
    /\ task' = [task EXCEPT ![t].pc = "assign_lock", ![t].attempts = @ + 1]
    /\ UNCHANGED <<runwayVars, runwayMutex, outsideConc>>

\* std::lock_guard<std::mutex> lock(m_mutex)
Lock(t) ==
    /\ task[t].pc \in {"assign_lock", "release_lock"}
    /\ MutexFree(subject)
    /\ runwayMutex' = [runwayMutex EXCEPT ![subject] = t]
    /\ task' = Goto(t, IF task[t].pc = "assign_lock"
                        THEN "assign_check" ELSE "release_check")
    /\ UNCHANGED <<runwayVars, outsideConc>>

\* The four tests; a refusal returns false through the lock_guard.
AssignCheck(t) ==
    /\ task[t].pc = "assign_check"
    /\ IF assignAircraftAccepts(subject, runways[subject], TaskAircraft(t))
       THEN /\ task' = Goto(t, "assign_occupant")
            /\ UNCHANGED runwayMutex
       ELSE /\ task' = [task EXCEPT ![t].pc = "idle", ![t].holds = FALSE]
            /\ runwayMutex' = [runwayMutex EXCEPT ![subject] = "free"]
    /\ UNCHANGED <<runwayVars, outsideConc>>

\* m_assignedAircraft = aircraft
AssignOccupant(t) ==
    /\ task[t].pc = "assign_occupant"
    /\ runways' = [runways EXCEPT ![subject].assignedAircraft = TaskAircraft(t)]
    /\ task' = Goto(t, "assign_status")
    /\ UNCHANGED <<aircraft, steadyNow, subject, lastCall, granted, runwayMutex, outsideConc>>

\* m_status = IN_USE; m_lastAssignmentTime = now
AssignStatus(t) ==
    /\ task[t].pc = "assign_status"
    /\ runways' = [runways EXCEPT ![subject].status = "IN_USE",
                                  ![subject].lastAssignmentTime = steadyNow]
    /\ task' = Goto(t, "assign_count")
    /\ UNCHANGED <<aircraft, steadyNow, subject, lastCall, granted, runwayMutex, outsideConc>>

\* aircraft->assignRunway(m_id); m_usageCount++; return true
AssignCount(t) ==
    /\ task[t].pc = "assign_count"
    /\ aircraft' = AircraftAfterAssign(subject, TaskAircraft(t))
    /\ runways' = [runways EXCEPT ![subject].usageCount = @ + 1]
    /\ task' = [task EXCEPT ![t].pc = "idle", ![t].holds = TRUE]
    /\ runwayMutex' = [runwayMutex EXCEPT ![subject] = "free"]
    /\ UNCHANGED <<steadyNow, subject, lastCall, granted, outsideConc>>

\* A thread whose assign returned true enters releaseAircraft.
CallRelease(t) ==
    /\ task[t].pc = "idle"
    /\ task[t].holds
    /\ task' = Goto(t, "release_lock")
    /\ UNCHANGED <<runwayVars, runwayMutex, outsideConc>>

ReleaseCheck(t) ==
    /\ task[t].pc = "release_check"
    /\ IF releaseAircraftAccepts(runways[subject], TaskAircraft(t))
       THEN /\ task' = Goto(t, "release_time")
            /\ UNCHANGED runwayMutex
       ELSE /\ task' = Goto(t, "idle")
            /\ runwayMutex' = [runwayMutex EXCEPT ![subject] = "free"]
    /\ UNCHANGED <<runwayVars, outsideConc>>

\* m_totalUsageTime += duration; m_assignedAircraft = nullptr
ReleaseOccupant(t) ==
    /\ task[t].pc = "release_time"
    /\ runways' = [runways EXCEPT
                      ![subject].totalUsageTime = @ + UsageDuration(runways[subject]),
                      ![subject].assignedAircraft = nullptr]
    /\ task' = Goto(t, "release_status")
    /\ UNCHANGED <<aircraft, steadyNow, subject, lastCall, granted, runwayMutex, outsideConc>>

\* m_status = AVAILABLE; return true
ReleaseStatus(t) ==
    /\ task[t].pc = "release_status"
    /\ runways' = [runways EXCEPT ![subject].status = "AVAILABLE"]
    /\ task' = [task EXCEPT ![t].pc = "idle", ![t].holds = FALSE,
                            ![t].releases = @ + 1]
    /\ runwayMutex' = [runwayMutex EXCEPT ![subject] = "free"]
    /\ UNCHANGED <<aircraft, steadyNow, subject, lastCall, granted, outsideConc>>

\* Cargo and emergency aircraft of three directions: all of them may use
\* RWY-C, two of them RWY-A, one of them RWY-B.
InitConc ==
    /\ steadyNow = 0
    /\ runways = [r \in RunwayId |-> NewRunway]
    /\ aircraft = [a \in AircraftIds |->
                      NewAircraft(IF a % 2 = 1 THEN "CARGO" ELSE "EMERGENCY",
                                  RosterDirection(a),
                                  SPEED_LIMITS[setInitialPhase(RosterDirection(a))].min)]
    /\ subject \in RunwayId
    /\ lastCall = NoCall
    /\ granted = [r \in RunwayId |-> NoGrant]
    /\ runwayMutex = [r \in RunwayId |-> "free"]
    /\ task = [t \in Tasks |-> IdleTask]
    /\ NoFlights
    /\ NoScheduler
    /\ NoServices
    /\ NoController

NextConc ==
    \E t \in Tasks :
        \/ CallAssign(t)
        \/ Lock(t)
        \/ AssignCheck(t)
        \/ AssignOccupant(t)
        \/ AssignStatus(t)
        \/ AssignCount(t)
        \/ CallRelease(t)
        \/ ReleaseCheck(t)
        \/ ReleaseOccupant(t)
        \/ ReleaseStatus(t)

SpecConc == InitConc /\ [][NextConc]_vars

(***************************************************************************)
(* Aircraft: the phase chain and the operations on one aircraft.           *)
(***************************************************************************)
getNextPhase(phase) ==
    CASE phase = "HOLDING" -> "APPROACH"
      [] phase = "APPROACH" -> "LANDING"
      [] phase = "LANDING" -> "TAXI_IN"
      [] phase = "TAXI_IN" -> "AT_GATE_ARRIVAL"
      [] phase = "AT_GATE_DEPARTURE" -> "TAXI_OUT"
      [] phase = "TAXI_OUT" -> "TAKEOFF_ROLL"
      [] phase = "TAKEOFF_ROLL" -> "CLIMB"
      [] phase = "CLIMB" -> "CRUISE"
      [] OTHER -> phase

\* A variant that lets the last phase of a chain "advance" to itself.
isValidTransitionOrStay(phase, nextPhase) ==
    \/ nextPhase = phase
    \/ phase \notin {"AT_GATE_ARRIVAL", "CRUISE"} /\ nextPhase = getNextPhase(phase)

isValidTransition(phase, nextPhase) ==
    CASE phase = "HOLDING" -> nextPhase = "APPROACH"
      [] phase = "APPROACH" -> nextPhase = "LANDING"
      [] phase = "LANDING" -> nextPhase = "TAXI_IN"
      [] phase = "TAXI_IN" -> nextPhase = "AT_GATE_ARRIVAL"
      [] phase = "AT_GATE_ARRIVAL" -> FALSE
      [] phase = "AT_GATE_DEPARTURE" -> nextPhase = "TAXI_OUT"
      [] phase = "TAXI_OUT" -> nextPhase = "TAKEOFF_ROLL"
      [] phase = "TAKEOFF_ROLL" -> nextPhase = "CLIMB"
      [] phase = "CLIMB" -> nextPhase = "CRUISE"
      [] phase = "CRUISE" -> FALSE
      [] OTHER -> FALSE

\* Aircraft::transitionToNextPhase: whether it returns true, and the
\* aircraft records it can leave behind (one per speed drawn).
transitionAccepts(ac) ==
    isValidTransition(ac.currentPhase, getNextPhase(ac.currentPhase))

AfterTransition(ac) ==
    IF transitionAccepts(ac)
    THEN {[ac EXCEPT !.currentPhase = getNextPhase(ac.currentPhase),
                     !.currentSpeed = v] :
             v \in generateRandomSpeedForPhase(getNextPhase(ac.currentPhase))}
    ELSE {ac}

GroundPhases == {"TAXI_IN", "AT_GATE_ARRIVAL", "AT_GATE_DEPARTURE", "TAXI_OUT"}

\* The speeds the model follows: within MaxDrift of a limit of the phase.
SpeedTracked(phase, v) ==
    \/ v - SPEED_LIMITS[phase].min \in -MaxDrift..MaxDrift
    \/ v - SPEED_LIMITS[phase].max \in -MaxDrift..MaxDrift

\* Aircraft::update: the speed moves by a draw from N(0, 2), taken from the
\* draws of this run; on the ground an aircraft without a fault may develop
\* one.
AfterUpdate(ac) ==
    {[ac EXCEPT !.currentSpeed = @ + d, !.hasGroundFault = @ \/ g] :
        d \in {x \in noise : SpeedTracked(ac.currentPhase, ac.currentSpeed + x)},
        g \in IF ac.currentPhase \in GroundPhases /\ ~ac.hasGroundFault
              THEN BOOLEAN ELSE {FALSE}}

\* Aircraft::simulateGroundFault
AfterSimulateGroundFault(ac) ==
    IF ac.currentPhase \in GroundPhases
    THEN {ac, [ac EXCEPT !.hasGroundFault = TRUE]}
    ELSE {ac}

(***************************************************************************)
(* Flight: status graph and flight plans.  Times are in tenths of a second.*)
(***************************************************************************)
FlightStatus ==
    {"SCHEDULED", "ACTIVE", "COMPLETED", "CANCELED", "DIVERTED", "EMERGENCY"}

TerminalStatus == {"COMPLETED", "CANCELED", "DIVERTED"}

\* A variant in which a completed flight may be completed again.
isValidStatusTransitionRepeatable(status, newStatus) ==
    CASE status = "SCHEDULED" -> newStatus \in {"ACTIVE", "EMERGENCY", "CANCELED"}
      [] status = "ACTIVE" ->
             newStatus \in {"COMPLETED", "CANCELED", "DIVERTED", "EMERGENCY"}
      [] status = "EMERGENCY" -> newStatus \in {"COMPLETED", "CANCELED", "DIVERTED"}
      [] OTHER -> newStatus = status

isValidStatusTransition(status, newStatus) ==
    CASE status = "SCHEDULED" -> newStatus \in {"ACTIVE", "EMERGENCY", "CANCELED"}
      [] status = "ACTIVE" ->
             newStatus \in {"COMPLETED", "CANCELED", "DIVERTED", "EMERGENCY"}
      [] status = "EMERGENCY" -> newStatus \in {"COMPLETED", "CANCELED", "DIVERTED"}
      [] status \in {"COMPLETED", "CANCELED", "DIVERTED"} -> FALSE
      [] OTHER -> FALSE

Step(op, offset) == [operation |-> op, relativeTimeOffset |-> offset]

createArrivalFlightPlan ==
    <<Step("transition", 300), Step("transition", 600),
      Step("release_transition", 900), Step("transition", 1200),
      Step("complete", 1500)>>

createDepartureFlightPlan ==
    <<Step("transition", 300), Step("transition", 600),
      Step("transition", 750), Step("release_transition", 900),
      Step("complete", 1200)>>

createEmergencyFlightPlan(arrival) ==
    IF arrival
    THEN <<Step("transition", 150), Step("transition", 300),
           Step("release_transition", 450), Step("transition", 600),
           Step("complete", 750)>>
    ELSE <<Step("transition", 150), Step("transition", 300),
           Step("transition", 375), Step("release_transition", 450),
           Step("complete", 600)>>

createFlightPlan(isEmergency, arrival) ==
    IF isEmergency THEN createEmergencyFlightPlan(arrival)
    ELSE IF arrival THEN createArrivalFlightPlan
    ELSE createDepartureFlightPlan

\* Flight::Flight
NewFlight(a, scheduledTime, isEmergency) ==
    [aircraft |-> a, status |-> "SCHEDULED", isEmergency |-> isEmergency,
     scheduledTime |-> scheduledTime, activationTime |-> 0,
     statusReason |-> "", assignedRunway |-> Null,
     flightPlan |-> createFlightPlan(isEmergency,
                                     isArrivalDirection(aircraft[a].direction)),
     currentPlanStep |-> 0, mutex |-> "free"]


(***************************************************************************)
(* Flight operations as functions of the flight's fields fl, the runway    *)
(* table rws and the flight's aircraft.  Each gives the fields afterwards  *)
(* and the value returned.                                                 *)
(***************************************************************************)
Outcome(fl, rws, result) == [flight |-> fl, runways |-> rws, result |-> result]

\* runway->releaseAircraft(m_aircraft), result ignored; m_assignedRunway.reset()
DropRunway(fl, rws) ==
    IF fl.assignedRunway = Null THEN Outcome(fl, rws, FALSE)
    ELSE LET r == fl.assignedRunway IN
         Outcome([fl EXCEPT !.assignedRunway = Null],
                 IF releaseAircraftAccepts(rws[r], fl.aircraft)
                 THEN [rws EXCEPT ![r] = AfterRelease(@)] ELSE rws,
                 TRUE)

\* Flight::releaseRunway
FlightReleaseRunway(fl, rws) ==
    IF fl.assignedRunway = Null THEN Outcome(fl, rws, FALSE)
    ELSE IF ~releaseAircraftAccepts(rws[fl.assignedRunway], fl.aircraft)
    THEN Outcome(fl, rws, FALSE)
    ELSE DropRunway(fl, rws)

\* Flight::assignRunway, up to the write of m_assignedRunway.
FlightAssignAccepts(fl, rws, r) ==
    /\ fl.status \in {"SCHEDULED", "ACTIVE", "EMERGENCY"}
    /\ fl.assignedRunway = Null
    /\ canUseForDirection(r, aircraft[fl.aircraft].direction)
    /\ canUseForAircraftType(r, aircraft[fl.aircraft].type)
    /\ assignAircraftAccepts(r, rws[r], fl.aircraft)

FlightAssignRunway(fl, rws, r) ==
    IF FlightAssignAccepts(fl, rws, r)
    THEN Outcome([fl EXCEPT !.assignedRunway = r],
                 [rws EXCEPT ![r] = AfterAssign(@, fl.aircraft)], TRUE)
    ELSE Outcome(fl, rws, FALSE)

\* Flight::activate
FlightActivate(fl, currentTime) ==
    IF isValidStatusTransition(fl.status, "ACTIVE")
    THEN [flight |-> [fl EXCEPT !.status = IF fl.isEmergency THEN "EMERGENCY"
                                           ELSE "ACTIVE",
                                !.activationTime = currentTime],
          result |-> TRUE]
    ELSE [flight |-> fl, result |-> FALSE]

\* Flight::complete, Flight::cancel and Flight::divert
FlightEnd(fl, rws, newStatus, reason) ==
    IF isValidStatusTransition(fl.status, newStatus)
    THEN LET d == DropRunway(fl, rws) IN
         Outcome([d.flight EXCEPT !.status = newStatus, !.statusReason = reason],
                 d.runways, TRUE)
    ELSE Outcome(fl, rws, FALSE)

FlightComplete(fl, rws) == FlightEnd(fl, rws, "COMPLETED", fl.statusReason)

FlightCancel(fl, rws, reason) == FlightEnd(fl, rws, "CANCELED", reason)

FlightDivert(fl, rws, reason) == FlightEnd(fl, rws, "DIVERTED", reason)

\* Flight::setEmergency.  The branch that would revert EMERGENCY to ACTIVE
\* sits under a test that admits only SCHEDULED and ACTIVE.
FlightSetEmergency(fl, isEmergency) ==
    IF fl.status \in {"SCHEDULED", "ACTIVE"}
    THEN IF isEmergency /\ fl.status # "EMERGENCY"
         THEN [fl EXCEPT !.isEmergency = isEmergency,
                         !.status = "EMERGENCY",
                         !.flightPlan = createEmergencyFlightPlan(
                             isArrivalDirection(aircraft[fl.aircraft].direction)),
                         !.currentPlanStep = 0]
         ELSE IF ~isEmergency /\ fl.status = "EMERGENCY"
         THEN [fl EXCEPT !.isEmergency = isEmergency,
                         !.status = "ACTIVE",
                         !.flightPlan = createFlightPlan(isEmergency,
                             isArrivalDirection(aircraft[fl.aircraft].direction)),
                         !.currentPlanStep = 0]
         ELSE [fl EXCEPT !.isEmergency = isEmergency]
    ELSE fl

\* Flight::handleGroundFault: no test of the status before the write.
FlightHandleGroundFault(fl, rws, ac) ==
    IF ac.hasGroundFault
    THEN LET d == DropRunway(fl, rws) IN
         Outcome([d.flight EXCEPT !.status = "CANCELED",
                                  !.statusReason = "Ground fault detected"],
                 d.runways, TRUE)
    ELSE Outcome(fl, rws, FALSE)

\* Flight::isReadyForNextPhase
isReadyForNextPhase(fl, currentTime) ==
    /\ fl.status \in {"ACTIVE", "EMERGENCY"}
    /\ fl.currentPlanStep < Len(fl.flightPlan)
    /\ currentTime - fl.activationTime >=
           fl.flightPlan[fl.currentPlanStep + 1].relativeTimeOffset

(***************************************************************************)
(* Flight::executeFlightPlanStep.  The step's operation runs with m_mutex  *)
(* held; releaseRunway() and complete() lock m_mutex again.  Where that    *)
(* blocks, the calling thread stops there for good with the mutex held.    *)
(***************************************************************************)
Stuck(fl) == [fl EXCEPT !.mutex = "stuck"]

StepOutcome(fl, rws, ac, result, trailing) ==
    [flight |-> fl, runways |-> rws, aircraft |-> ac, result |-> result,
     trailing |-> trailing]

\* The state after the step's operation, before m_currentPlanStep++.
StepOperation(fl, rws, ac) ==
    LET op == fl.flightPlan[fl.currentPlanStep + 1].operation IN
    CASE op = "transition" ->
            {StepOutcome(fl, rws, ac2, transitionAccepts(ac), "none") :
                ac2 \in AfterTransition(ac)}
      [] op = "release_transition" ->
            IF relock = "blocks"
            THEN {StepOutcome(Stuck(fl), rws, ac, FALSE, "stuck")}
            ELSE LET d == FlightReleaseRunway(fl, rws) IN
                 {StepOutcome(d.flight, d.runways, ac2, transitionAccepts(ac), "none") :
                     ac2 \in AfterTransition(ac)}
      [] OTHER ->
            IF relock = "blocks"
            THEN {StepOutcome(Stuck(fl), rws, ac, FALSE, "stuck")}
            ELSE LET d == FlightComplete(fl, rws) IN
                 {StepOutcome(d.flight, d.runways, ac, d.result, "none")}

\* m_currentPlanStep++ and, past the last step, complete() once more.
StepAdvance(o) ==
    IF o.trailing = "stuck" THEN o
    ELSE LET fl == [o.flight EXCEPT !.currentPlanStep = @ + 1] IN
         IF fl.currentPlanStep >= Len(fl.flightPlan)
         THEN IF relock = "blocks"
              THEN StepOutcome(Stuck(fl), o.runways, o.aircraft, FALSE, "stuck")
              ELSE LET d == FlightComplete(fl, o.runways) IN
                   StepOutcome(d.flight, d.runways, o.aircraft, o.result,
                               IF d.result THEN "completed" ELSE "refused")
         ELSE StepOutcome(fl, o.runways, o.aircraft, o.result, "none")

executeFlightPlanStep(fl, rws, ac, currentTime) ==
    IF \/ fl.currentPlanStep >= Len(fl.flightPlan)
       \/ currentTime - fl.activationTime <
              fl.flightPlan[fl.currentPlanStep + 1].relativeTimeOffset
    THEN {StepOutcome(fl, rws, ac, FALSE, "none")}
    ELSE {StepAdvance(o) : o \in StepOperation(fl, rws, ac)}

(***************************************************************************)
(* Flight::update.  It holds m_mutex and calls handleGroundFault,          *)
(* isReadyForNextPhase and executeFlightPlanStep, which lock it again.     *)
(***************************************************************************)
FlightUpdate(fl, rws, ac, currentTime) ==
    IF fl.status \notin {"ACTIVE", "EMERGENCY"}
    THEN {StepOutcome(fl, rws, ac, FALSE, "none")}
    ELSE UNION {
        IF relock = "blocks"
        THEN {StepOutcome(Stuck(fl), rws, ac2, FALSE, "stuck")}
        ELSE IF ac2.hasGroundFault
        THEN LET d == FlightHandleGroundFault(fl, rws, ac2) IN
             {StepOutcome(d.flight, d.runways, ac2, d.result, "none")}
        ELSE IF isReadyForNextPhase(fl, currentTime)
        THEN executeFlightPlanStep(fl, rws, ac2, currentTime)
        ELSE {StepOutcome(fl, rws, ac2, FALSE, "none")}
        : ac2 \in AfterUpdate(ac)}


(***************************************************************************)
(* The calls of the Flight-level specification: the public operations of   *)
(* Flight and Aircraft, made by any caller in any order.  A call on a      *)
(* flight waits for the flight's mutex.                                    *)
(***************************************************************************)
FlightCall(op, f, arg, result, trailing) ==
    [op |-> op, flight |-> f, result |-> result, trailing |-> trailing]

FlightIds == 1..Len(flights)

\* How often runways have been handed out so far.
TotalUsage ==
    runways["RWY_A"].usageCount + runways["RWY_B"].usageCount
        + runways["RWY_C"].usageCount

Callable(f) == flights[f].mutex = "free"

Reasons == {"weather"}

flightFrame == <<steadyNow, subject, granted, lastCall, simTime, relock, noise>>

Activate(f) ==
    /\ Callable(f)
    /\ LET o == FlightActivate(flights[f], simTime) IN
       /\ flights' = [flights EXCEPT ![f] = o.flight]
    /\ UNCHANGED <<runways, aircraft, flightFrame, outsideFlight>>

Complete(f) ==
    /\ Callable(f)
    /\ LET o == FlightComplete(flights[f], runways) IN
       /\ flights' = [flights EXCEPT ![f] = o.flight]
       /\ runways' = o.runways
    /\ UNCHANGED <<aircraft, flightFrame, outsideFlight>>

Cancel(f, reason) ==
    /\ Callable(f)
    /\ LET o == FlightCancel(flights[f], runways, reason) IN
       /\ flights' = [flights EXCEPT ![f] = o.flight]
       /\ runways' = o.runways
    /\ UNCHANGED <<aircraft, flightFrame, outsideFlight>>

Divert(f, reason) ==
    /\ Callable(f)
    /\ LET o == FlightDivert(flights[f], runways, reason) IN
       /\ flights' = [flights EXCEPT ![f] = o.flight]
       /\ runways' = o.runways
    /\ UNCHANGED <<aircraft, flightFrame, outsideFlight>>

SetEmergency(f, isEmergency) ==
    /\ Callable(f)
    /\ flights' = [flights EXCEPT ![f] = FlightSetEmergency(@, isEmergency)]
    /\ UNCHANGED <<runways, aircraft, flightFrame, outsideFlight>>

HandleGroundFault(f) ==
    /\ Callable(f)
    /\ LET o == FlightHandleGroundFault(flights[f], runways,
                                        aircraft[flights[f].aircraft]) IN
       /\ flights' = [flights EXCEPT ![f] = o.flight]
       /\ runways' = o.runways
    /\ UNCHANGED <<aircraft, flightFrame, outsideFlight>>

AssignRunway(f, r) ==
    /\ Callable(f)
    /\ FlightAssignAccepts(flights[f], runways, r) => TotalUsage < MaxUsage
    /\ LET o == FlightAssignRunway(flights[f], runways, r) IN
       /\ flights' = [flights EXCEPT ![f] = o.flight]
       /\ runways' = o.runways
       /\ aircraft' = IF o.result THEN AircraftAfterAssign(r, flights[f].aircraft)
                      ELSE aircraft
    /\ UNCHANGED <<flightFrame, outsideFlight>>

ReleaseRunway(f) ==
    /\ Callable(f)
    /\ LET o == FlightReleaseRunway(flights[f], runways) IN
       /\ flights' = [flights EXCEPT ![f] = o.flight]
       /\ runways' = o.runways
    /\ UNCHANGED <<aircraft, flightFrame, outsideFlight>>

\* Flight::transitionToNextPhase
TransitionToNextPhase(f) ==
    /\ Callable(f)
    /\ LET a == flights[f].aircraft
           live == flights[f].status \in {"ACTIVE", "EMERGENCY"} IN
       /\ \E ac2 \in IF live THEN AfterTransition(aircraft[a]) ELSE {aircraft[a]} :
              aircraft' = [aircraft EXCEPT ![a] = ac2]
    /\ UNCHANGED <<flights, runways, flightFrame, outsideFlight>>

ExecuteFlightPlanStep(f) ==
    /\ Callable(f)
    /\ LET a == flights[f].aircraft IN
       \E o \in executeFlightPlanStep(flights[f], runways, aircraft[a], simTime) :
          /\ flights' = [flights EXCEPT ![f] = o.flight]
          /\ runways' = o.runways
          /\ aircraft' = [aircraft EXCEPT ![a] = o.aircraft]
    /\ UNCHANGED <<flightFrame, outsideFlight>>

Update(f) ==
    /\ Callable(f)
    /\ LET a == flights[f].aircraft IN
       \E o \in FlightUpdate(flights[f], runways, aircraft[a], simTime) :
          /\ flights' = [flights EXCEPT ![f] = o.flight]
          /\ runways' = o.runways
          /\ aircraft' = [aircraft EXCEPT ![a] = o.aircraft]
    /\ UNCHANGED <<flightFrame, outsideFlight>>

\* Aircraft::update, as Airline::updateAllAircraft calls it
AircraftUpdate(a) ==
    /\ \E ac2 \in AfterUpdate(aircraft[a]) :
           aircraft' = [aircraft EXCEPT ![a] = ac2]
    /\ UNCHANGED <<flights, runways, flightFrame, outsideFlight>>

\* The simulation clock the callers pass in moves on.
SimTick ==
    /\ simTime + TickStep <= MaxSimTime
    /\ simTime' = simTime + TickStep
    /\ UNCHANGED <<flights, runways, aircraft, lastCall, steadyNow, subject,
                   granted, relock, noise, outsideFlight>>

\* One flight on an arriving or a departing aircraft of any kind, emergency
\* or not, in a build where relocking blocks or in one where it goes
\* through.  The speed noise is left to the Aircraft-level specification.
InitFlight ==
    /\ steadyNow = 0
    /\ runways = [r \in RunwayId |-> NewRunway]
    /\ \E type \in AircraftType, direction \in {"NORTH", "EAST"} :
          aircraft = [a \in {1} |->
                         NewAircraft(type, direction,
                                     SPEED_LIMITS[setInitialPhase(direction)].min)]
    /\ subject = "RWY_A"
    /\ lastCall = NoCall
    /\ granted = [r \in RunwayId |-> NoGrant]
    /\ runwayMutex = [r \in RunwayId |-> "free"]
    /\ task = [t \in Tasks |-> IdleTask]
    /\ simTime = 0
    /\ relock \in {"blocks", "proceeds"}
    /\ noise = {0}
    /\ \E isEmergency \in BOOLEAN :
          flights = <<NewFlight(1, 0, isEmergency)>>
    /\ NoScheduler
    /\ NoServices
    /\ NoController

NextFlight ==
    \/ \E f \in FlightIds :
          \/ Activate(f)
          \/ Complete(f)
          \/ \E reason \in Reasons : Cancel(f, reason)
          \/ \E reason \in Reasons : Divert(f, reason)
          \/ \E e \in BOOLEAN : SetEmergency(f, e)
          \/ HandleGroundFault(f)
          \/ \E r \in RunwayId : AssignRunway(f, r)
          \/ ReleaseRunway(f)
          \/ TransitionToNextPhase(f)
          \/ ExecuteFlightPlanStep(f)
          \/ Update(f)
    \/ \E a \in DOMAIN aircraft : AircraftUpdate(a)
    \/ SimTick

SpecFlight == InitFlight /\ [][NextFlight]_vars


(***************************************************************************)
(* The calls of the Aircraft-level specification: the public operations of *)
(* one Aircraft, made by any caller in any order.  lastCall keeps the      *)
(* fields of the aircraft when the call was made and the value returned.   *)
(***************************************************************************)
AircraftCall(op, a, result) ==
    [op |-> op, aircraft |-> a, pre |-> aircraft[a], result |-> result]

aircraftFrame ==
    <<runways, steadyNow, subject, granted, flightVars, concVars, aboveFlight>>

transitionToNextPhase(a) ==
    /\ \E ac2 \in AfterTransition(aircraft[a]) :
           aircraft' = [aircraft EXCEPT ![a] = ac2]
    /\ lastCall' = AircraftCall("transitionToNextPhase", a,
                                transitionAccepts(aircraft[a]))
    /\ UNCHANGED aircraftFrame

update(a) ==
    /\ \E ac2 \in AfterUpdate(aircraft[a]) :
           aircraft' = [aircraft EXCEPT ![a] = ac2]
    /\ lastCall' = AircraftCall("update", a, TRUE)
    /\ UNCHANGED aircraftFrame

\* Aircraft::updateSpeed: the new speed is clamped to the limits of the phase.
Clamp(v, lo, hi) == IF v < lo THEN lo ELSE IF v > hi THEN hi ELSE v

updateSpeed(a, speedDelta) ==
    /\ SpeedTracked(aircraft[a].currentPhase, aircraft[a].currentSpeed + speedDelta)
    /\ aircraft' = [aircraft EXCEPT ![a].currentSpeed =
                       Clamp(@ + speedDelta,
                             SPEED_LIMITS[aircraft[a].currentPhase].min,
                             SPEED_LIMITS[aircraft[a].currentPhase].max)]
    /\ lastCall' = AircraftCall("updateSpeed", a, TRUE)
    /\ UNCHANGED aircraftFrame

simulateGroundFault(a) ==
    /\ \E ac2 \in AfterSimulateGroundFault(aircraft[a]) :
          /\ aircraft' = [aircraft EXCEPT ![a] = ac2]
          /\ lastCall' = AircraftCall("simulateGroundFault", a,
                                      ac2.hasGroundFault /\ ac2 # aircraft[a])
    /\ UNCHANGED aircraftFrame

InitAircraft ==
    /\ steadyNow = 0
    /\ runways = [r \in RunwayId |-> NewRunway]
    /\ \E type \in AircraftType, direction \in FlightDirection :
       \E v \in generateRandomSpeedForPhase(setInitialPhase(direction)) :
          aircraft = [a \in {1} |-> NewAircraft(type, direction, v)]
    /\ subject = "RWY_A"
    /\ lastCall = NoCall
    /\ granted = [r \in RunwayId |-> NoGrant]
    /\ runwayMutex = [r \in RunwayId |-> "free"]
    /\ task = [t \in Tasks |-> IdleTask]
    /\ flights = <<>>
    /\ simTime = 0
    /\ relock = "proceeds"
    /\ noise = {-SpeedStdDev, 0, SpeedStdDev}
    /\ NoScheduler
    /\ NoServices
    /\ NoController

NextAircraft ==
    \E a \in DOMAIN aircraft :
        \/ transitionToNextPhase(a)
        \/ update(a)
        \/ \E d \in noise : updateSpeed(a, d)
        \/ simulateGroundFault(a)

SpecAircraft == InitAircraft /\ [][NextAircraft]_vars


(***************************************************************************)
(* C1.  For every runway, in every state reachable through any sequence of *)
(* assignAircraft, releaseAircraft and setStatus calls, the status is      *)
(* IN_USE exactly when an assigned aircraft is recorded.                   *)
(***************************************************************************)
C1_InUseIffOccupant ==
    \A r \in RunwayId :
        (runways[r].status = "IN_USE") <=> (runways[r].assignedAircraft # nullptr)

(***************************************************************************)
(* C2.  At most one aircraft occupies a runway at any time.  When the      *)
(* controller threads concurrently try to assign different aircraft to the *)
(* same AVAILABLE runway, exactly one call succeeds and all others fail.   *)
(***************************************************************************)
C2_Holders == {t \in Tasks : task[t].holds}

C2_Contenders ==
    {t \in Tasks :
        /\ canUseForDirection(subject, aircraft[TaskAircraft(t)].direction)
        /\ canUseForAircraftType(subject, aircraft[TaskAircraft(t)].type)}

C2_ExactlyOneSucceeds ==
    /\ Cardinality(C2_Holders) <= 1
    /\ \A t \in C2_Holders :
          task[t].pc = "idle" =>
              /\ runways[subject].status = "IN_USE"
              /\ runways[subject].assignedAircraft = TaskAircraft(t)
    /\ ( /\ \A t \in Tasks : task[t].pc = "idle" /\ task[t].releases = 0
         /\ \E t \in C2_Contenders : task[t].attempts > 0 )
       => Cardinality(C2_Holders) = 1

\* C2 witness: all three threads have tried to put their aircraft on the
\* same runway, which admits each of them; one holds it, two were refused.
C2_Witness ==
    /\ C2_Contenders = Tasks
    /\ \A t \in Tasks :
          task[t].pc = "idle" /\ task[t].attempts = 1 /\ task[t].releases = 0
    /\ Cardinality(C2_Holders) = 1

(***************************************************************************)
(* C4.  Every change of a flight's status, whichever operation makes it    *)
(* (activate, complete, cancel, divert, setEmergency, handleGroundFault,   *)
(* update), follows an edge of the status graph: SCHEDULED to ACTIVE,      *)
(* EMERGENCY or CANCELED; ACTIVE to EMERGENCY, COMPLETED, CANCELED or      *)
(* DIVERTED; EMERGENCY to COMPLETED, CANCELED or DIVERTED.  COMPLETED,     *)
(* CANCELED and DIVERTED are never left.                                   *)
(***************************************************************************)
C4_Graph ==
    ({"SCHEDULED"} \X {"ACTIVE", "EMERGENCY", "CANCELED"})
      \cup ({"ACTIVE"} \X {"EMERGENCY", "COMPLETED", "CANCELED", "DIVERTED"})
      \cup ({"EMERGENCY"} \X {"COMPLETED", "CANCELED", "DIVERTED"})

C4_StepInGraph ==
    \A f \in FlightIds :
        flights'[f].status # flights[f].status =>
            <<flights[f].status, flights'[f].status>> \in C4_Graph

C4_StatusGraph == [][C4_StepInGraph]_vars


(***************************************************************************)
(* C5.  Every change of an aircraft's phase moves it to the immediate      *)
(* successor in its chain: HOLDING, APPROACH, LANDING, TAXI_IN,            *)
(* AT_GATE_ARRIVAL for arrivals and AT_GATE_DEPARTURE, TAXI_OUT,           *)
(* TAKEOFF_ROLL, CLIMB, CRUISE for departures.  transitionToNextPhase on   *)
(* an aircraft in AT_GATE_ARRIVAL or CRUISE returns false and leaves the   *)
(* phase and the speed as they were.                                       *)
(***************************************************************************)
C5_Chain ==
    {<<"HOLDING", "APPROACH">>, <<"APPROACH", "LANDING">>,
     <<"LANDING", "TAXI_IN">>, <<"TAXI_IN", "AT_GATE_ARRIVAL">>,
     <<"AT_GATE_DEPARTURE", "TAXI_OUT">>, <<"TAXI_OUT", "TAKEOFF_ROLL">>,
     <<"TAKEOFF_ROLL", "CLIMB">>, <<"CLIMB", "CRUISE">>}

C5_StepInChain ==
    \A a \in DOMAIN aircraft :
        aircraft'[a].currentPhase # aircraft[a].currentPhase =>
            <<aircraft[a].currentPhase, aircraft'[a].currentPhase>> \in C5_Chain

C5_EndOfChainRefuses ==
    /\ lastCall.op = "transitionToNextPhase"
    /\ lastCall.pre.currentPhase \in {"AT_GATE_ARRIVAL", "CRUISE"}
    => /\ lastCall.result = FALSE
       /\ aircraft[lastCall.aircraft].currentPhase = lastCall.pre.currentPhase
       /\ aircraft[lastCall.aircraft].currentSpeed = lastCall.pre.currentSpeed

C5_PhaseChain == [][C5_StepInChain /\ C5_EndOfChainRefuses']_vars

\* C5 witness: a departure that has climbed to CRUISE, whose speed has since
\* drifted, was asked to advance once more and refused.
C5_Witness ==
    /\ lastCall.op = "transitionToNextPhase"
    /\ lastCall.pre.currentPhase = "CRUISE"
    /\ lastCall.pre.currentSpeed \notin generateRandomSpeedForPhase("CRUISE")
    /\ lastCall.result = FALSE


(***************************************************************************)
(* C7.  An assignAircraft call on a runway that is not AVAILABLE, or with  *)
(* a null aircraft, or with an aircraft whose direction or kind the runway *)
(* does not admit, and a releaseAircraft call by anything but the current  *)
(* occupant, each return false and leave the runway's status, occupant,    *)
(* usage count and usage time as they were.                                *)
(***************************************************************************)
C7_Refused(c) ==
    \/ /\ c.op = "assignAircraft"
       /\ \/ c.pre.status # "AVAILABLE"
          \/ c.arg = nullptr
          \/ ~isValidRunwayForDirection(c.runway, aircraft[c.arg].direction)
          \/ ~isValidRunwayForAircraftType(c.runway, aircraft[c.arg].type)
    \/ /\ c.op = "releaseAircraft"
       /\ \/ c.arg = nullptr
          \/ c.pre.assignedAircraft # c.arg

C7_RefusedCallsChangeNothing ==
    C7_Refused(lastCall) =>
        /\ lastCall.result = FALSE
        /\ runways[lastCall.runway].status = lastCall.pre.status
        /\ runways[lastCall.runway].assignedAircraft = lastCall.pre.assignedAircraft
        /\ runways[lastCall.runway].usageCount = lastCall.pre.usageCount
        /\ runways[lastCall.runway].totalUsageTime = lastCall.pre.totalUsageTime

\* C7 witness: a release by an aircraft other than the occupant of a runway
\* that had been in use for a while, was refused.
C7_Witness ==
    /\ lastCall.op = "releaseAircraft"
    /\ lastCall.arg # nullptr
    /\ lastCall.pre.status = "IN_USE"
    /\ lastCall.pre.assignedAircraft \notin {nullptr, lastCall.arg}
    /\ lastCall.pre.lastAssignmentTime < steadyNow
    /\ lastCall.result = FALSE

(***************************************************************************)
(* C8.  An assignAircraft that succeeds on a runway whose usage count is n,*)
(* followed by a releaseAircraft by the same aircraft, leaves the runway   *)
(* AVAILABLE with no occupant, a usage count of n + 1 and a usage time not *)
(* smaller than before the assign; and the release right after the assign  *)
(* succeeds.                                                               *)
(***************************************************************************)
C8_AssignThenRelease ==
    /\ (lastCall.op = "assignAircraft" /\ lastCall.result) =>
          releaseAircraftAccepts(runways[lastCall.runway], lastCall.arg)
    /\ (lastCall.op = "releaseAircraft" /\ lastCall.result) =>
          LET r == lastCall.runway IN
          /\ granted[r].arg = lastCall.arg
          /\ runways[r].status = "AVAILABLE"
          /\ runways[r].assignedAircraft = nullptr
          /\ runways[r].usageCount = granted[r].usageCount + 1
          /\ runways[r].totalUsageTime >= granted[r].totalUsageTime

\* C8 witness: a release by the occupant succeeded after the aircraft had
\* held the runway for some time, on a runway that had been used before.
C8_Witness ==
    /\ lastCall.op = "releaseAircraft"
    /\ lastCall.result
    /\ granted[lastCall.runway].usageCount = 1
    /\ runways[lastCall.runway].usageCount = 2
    /\ runways[lastCall.runway].totalUsageTime > granted[lastCall.runway].totalUsageTime

(***************************************************************************)
(* C9.  complete() on a flight that is already COMPLETED returns false and *)
(* changes nothing: not the status, not the runway reference, not the      *)
(* status reason.  This includes the complete() that executeFlightPlanStep *)
(* issues after the last plan step has itself completed the flight.        *)
(***************************************************************************)
C9_DirectCall(f) ==
    flights[f].status = "COMPLETED" =>
        LET o == FlightComplete(flights[f], runways) IN
        /\ o.result = FALSE
        /\ o.flight = flights[f]
        /\ o.runways = runways

C9_TrailingCall(f) ==
    \A o \in StepOperation(flights[f], runways, aircraft[flights[f].aircraft]) :
        LET fl == [o.flight EXCEPT !.currentPlanStep = @ + 1]
            d == FlightComplete(fl, o.runways) IN
        /\ o.flight.status = "COMPLETED"
        /\ fl.currentPlanStep >= Len(fl.flightPlan)
        => /\ d.result = FALSE
           /\ d.flight = fl
           /\ d.runways = o.runways
           /\ StepAdvance(o).trailing = "refused"
           /\ StepAdvance(o).flight = fl

C9_CompleteTwice ==
    \A f \in FlightIds :
        /\ C9_DirectCall(f)
        /\ flights[f].currentPlanStep < Len(flights[f].flightPlan)
               => C9_TrailingCall(f)

\* C9 witness: a flight was completed by the last step of its plan while it
\* held a runway, and executeFlightPlanStep has then called complete() on
\* the completed flight.
C9_Witness ==
    \E f \in FlightIds :
        /\ flights[f].status = "COMPLETED"
        /\ flights[f].currentPlanStep = Len(flights[f].flightPlan)
        /\ flights[f].assignedRunway = Null
        /\ flights[f].statusReason = ""
        /\ \E r \in RunwayId : runways[r].usageCount > 0
        /\ \A r \in RunwayId : runways[r].assignedAircraft = nullptr


(***************************************************************************)
(* source.cpp, the single-file build the README lists: FlightScheduler     *)
(* with its ArrivalFlight and DepartureFlight objects.  Speeds and speed   *)
(* violations play no part in runway allocation and are not carried.       *)
(***************************************************************************)
NONE == "NONE"

Airlines ==
    {"PIA", "AirBlue", "FedEx", "Pakistan Airforce", "Blue Dart",
     "AghaKhan Air Ambulance"}

ARRIVAL_NORTH_INTERVAL == 180

ARRIVAL_SOUTH_INTERVAL == 120

DEPARTURE_EAST_INTERVAL == 150

DEPARTURE_WEST_INTERVAL == 240

HOLDING_TIME == 20

APPROACH_TIME == 15

LANDING_TIME == 10

TAXI_TIME == 15

TAKEOFF_TIME == 10

CLIMB_TIME == 20

GenerationInterval(direction) ==
    CASE direction = "NORTH" -> ARRIVAL_NORTH_INTERVAL
      [] direction = "SOUTH" -> ARRIVAL_SOUTH_INTERVAL
      [] direction = "EAST" -> DEPARTURE_EAST_INTERVAL
      [] direction = "WEST" -> DEPARTURE_WEST_INTERVAL

\* The tick at which generateFlights first produces a flight of a direction.
FirstGeneration(direction) ==
    CASE direction = "NORTH" -> 1
      [] direction = "SOUTH" -> 2
      [] direction = "EAST" -> 3
      [] direction = "WEST" -> 4

\* The airline whose flights of a direction are always of type EMERGENCY.
EmergencyAirline(direction) ==
    CASE direction = "NORTH" -> "Pakistan Airforce"
      [] direction = "SOUTH" -> "AghaKhan Air Ambulance"
      [] direction = "EAST" -> "Pakistan Airforce"
      [] direction = "WEST" -> NONE

GeneratedType(direction, airline, isEmergency) ==
    IF isEmergency \/ airline = EmergencyAirline(direction) THEN "EMERGENCY"
    ELSE IF airline \in {"FedEx", "Blue Dart"} THEN "CARGO"
    ELSE "COMMERCIAL"

GeneratedPriority(type, isEmergency) ==
    IF isEmergency THEN 3 ELSE IF type = "CARGO" THEN 2 ELSE 1

(***************************************************************************)
(* ArrivalFlight::ArrivalFlight and DepartureFlight::DepartureFlight.      *)
(***************************************************************************)
NewScheduledFlight(direction, airline, isEmergency) ==
    [type |-> GeneratedType(direction, airline, isEmergency),
     direction |-> direction,
     priority |->
         GeneratedPriority(GeneratedType(direction, airline, isEmergency),
                           isEmergency),
     isEmergency |-> isEmergency,
     assignedRunway |-> NONE,
     state |-> IF direction \in {"NORTH", "SOUTH"} THEN "HOLDING" ELSE "AT_GATE",
     stateTime |-> 0]

\* The runway queue generateFlights pushes a flight of a direction on.
QueueOfDirection(direction) ==
    IF direction \in {"NORTH", "SOUTH"} THEN "RWY_A" ELSE "RWY_B"

GenerationDue(S, direction) ==
    \/ S.currentSimulationTime - S.lastGeneration[direction]
           >= GenerationInterval(direction)
    \/ S.currentSimulationTime = FirstGeneration(direction)

\* One of the four blocks of generateFlights; draw is the airline and the
\* emergency flag its random distributions produced.
GenerateDirection(S, direction, draw) ==
    IF GenerationDue(S, direction)
    THEN LET f == Len(S.allFlights) + 1
         IN  [S EXCEPT
                 !.lastGeneration[direction] = S.currentSimulationTime,
                 !.allFlights =
                     Append(@, NewScheduledFlight(direction, draw.airline,
                                                  draw.isEmergency)),
                 !.activeFlights = Append(@, f),
                 !.runwayQueue[QueueOfDirection(direction)] = @ \cup {f}]
    ELSE S

generateFlights(S, draws) ==
    LET north == GenerateDirection(S, "NORTH", draws["NORTH"])
        south == GenerateDirection(north, "SOUTH", draws["SOUTH"])
        east == GenerateDirection(south, "EAST", draws["EAST"])
    IN  GenerateDirection(east, "WEST", draws["WEST"])

(***************************************************************************)
(* FlightScheduler::assignRunways                                          *)
(***************************************************************************)
\* A variant that orders the queue by scheduled time alone.
CompareScheduledTime(S, a, b) == a > b

\* CompareAircraftPriority: a is below b in the queue.  Flights are created
\* in index order, so the earlier scheduledTime is the smaller index.
CompareAircraftPriority(S, a, b) ==
    IF S.allFlights[a].priority # S.allFlights[b].priority
    THEN S.allFlights[a].priority < S.allFlights[b].priority
    ELSE a > b

QueueTop(S, queue) ==
    CHOOSE f \in queue :
        \A g \in queue \ {f} : CompareAircraftPriority(S, g, f)

\* if (runwayXAvailable && currentSimulationTime >= runwayXFreeTime) {...}
TakeRunway(S, r, f) ==
    IF S.runwayAvailable[r] /\ S.currentSimulationTime >= S.runwayFreeTime[r]
    THEN [S EXCEPT !.runwayAvailable[r] = FALSE,
                   !.runwayOccupant[r] = f,
                   !.allFlights[f].assignedRunway = r]
    ELSE S

Assigned(S, f) == S.allFlights[f].assignedRunway # NONE

\* The body of the runwayAQueue and runwayBQueue loops for one flight that
\* has no runway: RWY-C for emergency and cargo types, then the runway of
\* the queue, then the RWY-C fallback.
AssignFromDirectionQueue(S, r, f) ==
    LET fl == S.allFlights[f]
        first == IF fl.type \in {"EMERGENCY", "CARGO"}
                 THEN TakeRunway(S, "RWY_C", f) ELSE S
        second == IF ~Assigned(first, f) /\ QueueOfDirection(fl.direction) = r
                  THEN TakeRunway(first, r, f) ELSE first
    IN  IF ~Assigned(second, f) /\ fl.type # "CARGO"
        THEN TakeRunway(second, "RWY_C", f) ELSE second

AssignFromQueue(S, r, f) ==
    IF Assigned(S, f) THEN S
    ELSE IF r = "RWY_C" THEN TakeRunway(S, "RWY_C", f)
    ELSE AssignFromDirectionQueue(S, r, f)

\* One while loop of assignRunways: the flights of the queue in pop order.
\* A flight popped goes on the temporary queue, which replaces the queue
\* at the end, unless this pass has given it a runway.
RECURSIVE ProcessQueue(_, _, _)
ProcessQueue(S, r, queue) ==
    IF queue = {} THEN S
    ELSE LET f == QueueTop(S, queue)
             T == AssignFromQueue(S, r, f)
             kept == IF ~Assigned(S, f) /\ Assigned(T, f)
                     THEN [T EXCEPT !.runwayQueue[r] = @ \ {f}]
                     ELSE T
         IN  ProcessQueue(kept, r, queue \ {f})

ReleaseDue(fl) ==
    IF fl.direction \in {"NORTH", "SOUTH"}
    THEN fl.state \in {"TAXI", "AT_GATE"}
    ELSE fl.state \in {"CLIMB", "CRUISE"}

ReleaseFlight(S, f) ==
    LET fl == S.allFlights[f]
        r == fl.assignedRunway
    IN  IF r # NONE /\ ReleaseDue(fl)
        THEN [S EXCEPT !.allFlights[f].assignedRunway = NONE,
                       !.runwayAvailable[r] = TRUE,
                       !.runwayOccupant[r] = nullptr,
                       !.runwayFreeTime[r] = S.currentSimulationTime]
        ELSE S

\* for (auto& flight : activeFlights) from position i on.
RECURSIVE ReleaseLoop(_, _)
ReleaseLoop(S, i) ==
    IF i > Len(S.activeFlights) THEN S
    ELSE ReleaseLoop(ReleaseFlight(S, S.activeFlights[i]), i + 1)

assignRunways(S) ==
    LET a == ProcessQueue(S, "RWY_A", S.runwayQueue["RWY_A"])
        b == ProcessQueue(a, "RWY_B", a.runwayQueue["RWY_B"])
        c == ProcessQueue(b, "RWY_C", b.runwayQueue["RWY_C"])
    IN  ReleaseLoop(c, 1)

(***************************************************************************)
(* ArrivalFlight::updateStatus and DepartureFlight::updateStatus: the      *)
(* state and stateTime they leave.                                         *)
(***************************************************************************)
NextState(fl, state) == [fl EXCEPT !.state = state, !.stateTime = 0]

ArrivalUpdateStatus(fl) ==
    LET t == fl.stateTime + 1
        waited == [fl EXCEPT !.stateTime = t]
    IN  CASE fl.state = "HOLDING" ->
                 IF t >= HOLDING_TIME /\ fl.assignedRunway # NONE
                 THEN NextState(fl, "APPROACH") ELSE waited
          [] fl.state = "APPROACH" ->
                 IF t >= APPROACH_TIME THEN NextState(fl, "LANDING") ELSE waited
          [] fl.state = "LANDING" ->
                 IF t >= LANDING_TIME THEN NextState(fl, "TAXI") ELSE waited
          [] fl.state = "TAXI" ->
                 IF t >= TAXI_TIME THEN NextState(fl, "AT_GATE") ELSE waited
          [] fl.state = "AT_GATE" -> waited

DepartureUpdateStatus(fl) ==
    LET t == fl.stateTime + 1
        waited == [fl EXCEPT !.stateTime = t]
    IN  CASE fl.state = "AT_GATE" ->
                 IF fl.assignedRunway # NONE
                 THEN NextState(fl, "TAXI") ELSE waited
          [] fl.state = "TAXI" ->
                 IF t >= TAXI_TIME THEN NextState(fl, "TAKEOFF_ROLL") ELSE waited
          [] fl.state = "TAKEOFF_ROLL" ->
                 IF t >= TAKEOFF_TIME THEN NextState(fl, "CLIMB") ELSE waited
          [] fl.state = "CLIMB" ->
                 IF t >= CLIMB_TIME THEN NextState(fl, "CRUISE") ELSE waited
          [] fl.state = "CRUISE" -> waited

updateStatus(fl) ==
    IF fl.direction \in {"NORTH", "SOUTH"}
    THEN ArrivalUpdateStatus(fl) ELSE DepartureUpdateStatus(fl)

isCompleted(fl) ==
    IF fl.direction \in {"NORTH", "SOUTH"}
    THEN fl.state = "AT_GATE" ELSE fl.state = "CRUISE"

IsActive(S, f) == \E i \in 1..Len(S.activeFlights) : S.activeFlights[i] = f

updateFlights(S) ==
    [S EXCEPT !.allFlights =
        [f \in DOMAIN S.allFlights |->
            IF IsActive(S, f) THEN updateStatus(S.allFlights[f])
            ELSE S.allFlights[f]]]

moveCompletedFlights(S) ==
    [S EXCEPT !.activeFlights =
        SelectSeq(S.activeFlights, LAMBDA f : ~isCompleted(S.allFlights[f]))]

(***************************************************************************)
(* simulationLoop: one FlightScheduler::updateSimulation per second.       *)
(***************************************************************************)
\* What the random distributions of one block of generateFlights can produce;
\* a block that is not due draws nothing.
GenerationDraws(S, direction) ==
    IF GenerationDue(S, direction)
    THEN [airline : Airlines, isEmergency : BOOLEAN]
    ELSE {[airline |-> NONE, isEmergency |-> FALSE]}

Ticked(S) ==
    [S EXCEPT !.currentSimulationTime = S.currentSimulationTime + 1]

updateSimulation ==
    /\ scheduler.currentSimulationTime < MaxSchedTime
    /\ \E north \in GenerationDraws(Ticked(scheduler), "NORTH"),
          south \in GenerationDraws(Ticked(scheduler), "SOUTH"),
          east \in GenerationDraws(Ticked(scheduler), "EAST"),
          west \in GenerationDraws(Ticked(scheduler), "WEST") :
          scheduler' =
              moveCompletedFlights(
                  updateFlights(
                      assignRunways(
                          generateFlights(Ticked(scheduler),
                                          [NORTH |-> north, SOUTH |-> south,
                                           EAST |-> east, WEST |-> west]))))
    /\ UNCHANGED <<runwayVars, concVars, flightVars, ctlVars, serviceVars>>

InitSched ==
    /\ steadyNow = 0
    /\ runways = [r \in RunwayId |-> NewRunway]
    /\ aircraft = [a \in {1} |->
                      NewAircraft("CARGO", "NORTH",
                                  SPEED_LIMITS[setInitialPhase("NORTH")].min)]
    /\ subject = "RWY_A"
    /\ lastCall = NoCall
    /\ granted = [r \in RunwayId |-> NoGrant]
    /\ runwayMutex = [r \in RunwayId |-> "free"]
    /\ task = [t \in Tasks |-> IdleTask]
    /\ NoFlights
    /\ NoScheduler
    /\ NoServices
    /\ NoController

NextSched == updateSimulation

SpecSched == InitSched /\ [][NextSched]_vars

(***************************************************************************)
(* C3: no aircraft whose kind is neither Cargo nor Emergency is ever the   *)
(* occupant of RWY-C, in any reachable state of either arbiter: the        *)
(* runways the controller assigns through Runway::assignAircraft, and the  *)
(* runways of FlightScheduler::assignRunways with its fallback branches.   *)
(***************************************************************************)
C3_ControllerArbiter ==
    runways["RWY_C"].assignedAircraft # nullptr
        => aircraft[runways["RWY_C"].assignedAircraft].type
               \in {"CARGO", "EMERGENCY"}

C3_SchedulerArbiter ==
    scheduler.runwayOccupant["RWY_C"] # nullptr
        => scheduler.allFlights[scheduler.runwayOccupant["RWY_C"]].type
               \in {"CARGO", "EMERGENCY"}

C3_RunwayCReserved == C3_ControllerArbiter /\ C3_SchedulerArbiter


(***************************************************************************)
(* Airline.  Times are in tenths of a second, as for Flight.               *)
(***************************************************************************)
FLIGHT_GENERATION_INTERVAL ==
    [NORTH |-> 1800, SOUTH |-> 1200, EAST |-> 1500, WEST |-> 2400]

\* Airline::canScheduleFlight
canScheduleFlight(i) == Cardinality(airlines[i].fleet) < AIRLINES[i].aircrafts

\* A variant in which the primary kind of a cargo or emergency airline is
\* looked at before the forceEmergency flag.
determineAircraftTypePrimaryFirst(i, forceEmergency) ==
    IF AIRLINES[i].type \in {"EMERGENCY", "CARGO"} THEN {AIRLINES[i].type}
    ELSE IF forceEmergency THEN {"EMERGENCY"}
    ELSE {"EMERGENCY", "CARGO", "COMMERCIAL"}

\* Airline::determineAircraftType: the types its random draws can give.
determineAircraftType(i, forceEmergency) ==
    IF forceEmergency THEN {"EMERGENCY"}
    ELSE IF AIRLINES[i].type \in {"EMERGENCY", "CARGO"} THEN {AIRLINES[i].type}
    ELSE {"EMERGENCY", "CARGO", "COMMERCIAL"}

\* Airline::createAircraft(direction, forceEmergency): the fields of the
\* aircraft it can add to the fleet.  The speed is the lower limit of the
\* first phase.
createAircraft(i, direction, forceEmergency) ==
    {NewAircraft(type, direction, SPEED_LIMITS[setInitialPhase(direction)].min) :
        type \in determineAircraftType(i, forceEmergency)}

\* createAircraft(direction, AircraftType::CARGO), which createCargoFlight
\* calls on a commercial airline.  Airline.h declares the second parameter
\* as bool forceEmergency only: a build either has an overload that takes
\* the requested type, or takes the argument as the flag.
createAircraftOfType(i, direction, type) ==
    IF overload = "type"
    THEN {NewAircraft(type, direction,
                      SPEED_LIMITS[setInitialPhase(direction)].min)}
    ELSE createAircraft(i, direction, TRUE)

\* Airline::scheduleFlightIfNeeded, up to its call of createAircraft.
scheduleFlightIfNeededAccepts(i, currentTime, direction) ==
    /\ currentTime - airlines[i].lastFlightScheduleTime
           >= FLIGHT_GENERATION_INTERVAL[direction]
    /\ canScheduleFlight(i)

(***************************************************************************)
(* SimulationController: runway assignment.                                *)
(***************************************************************************)
m_runways == <<"RWY_A", "RWY_B", "RWY_C">>

Least(S) == CHOOSE x \in S : \A y \in S : x <= y

\* SimulationController::countActiveCargoFlights
countActiveCargoFlights ==
    Cardinality({f \in 1..Len(flights) :
                    /\ aircraft[flights[f].aircraft].type = "CARGO"
                    /\ flights[f].status \notin TerminalStatus})

\* What a call that tries runways for flight f leaves: the flight took
\* runway r, or r is Null and addDeniedFlightForRescheduling queued it.
Assignment(f, r, denied) ==
    IF r = Null
    THEN [flights |-> flights, runways |-> runways, aircraft |-> aircraft,
          deniedFlights |-> Append(denied, f), result |-> FALSE]
    ELSE [flights |->
              [flights EXCEPT ![f] = FlightAssignRunway(@, runways, r).flight],
          runways |-> FlightAssignRunway(flights[f], runways, r).runways,
          aircraft |-> AircraftAfterAssign(r, flights[f].aircraft),
          deniedFlights |-> denied, result |-> TRUE]

\* The first runway of a sequence that is available and that
\* Flight::assignRunway accepts; a refused call changes nothing.
FirstAccepting(f, candidates) ==
    LET accepting == {k \in 1..Len(candidates) :
                         /\ isAvailable(candidates[k])
                         /\ FlightAssignAccepts(flights[f], runways,
                                                candidates[k])}
    IN  IF accepting = {} THEN Null ELSE candidates[Least(accepting)]

\* SimulationController::assignRunwayToCargo
assignRunwayToCargo(f, denied) ==
    LET ac == aircraft[flights[f].aircraft]
        first == IF canUseForDirection("RWY_C", ac.direction)
                 THEN <<"RWY_C">> ELSE <<>>
        others == SelectSeq(m_runways,
                            LAMBDA r : /\ r # "RWY_C"
                                       /\ canUseForDirection(r, ac.direction)
                                       /\ canUseForAircraftType(r, "CARGO"))
    IN  IF ac.type # "CARGO"
        THEN [flights |-> flights, runways |-> runways, aircraft |-> aircraft,
              deniedFlights |-> denied, result |-> FALSE]
        ELSE Assignment(f, FirstAccepting(f, first \o others), denied)

\* SimulationController::assignRunwayToFlight.  The emergency branch and the
\* normal branch run the same loop.
assignRunwayToFlight(f, denied) ==
    LET ac == aircraft[flights[f].aircraft]
        candidates ==
            SelectSeq(m_runways,
                      LAMBDA r : /\ ~(/\ r = "RWY_C"
                                      /\ ac.type \notin {"CARGO", "EMERGENCY"})
                                 /\ canUseForDirection(r, ac.direction)
                                 /\ canUseForAircraftType(r, ac.type))
    IN  IF ac.type = "CARGO" THEN assignRunwayToCargo(f, denied)
        ELSE Assignment(f, FirstAccepting(f, candidates), denied)


(***************************************************************************)
(* The threads of SimulationController.  A thread takes the turn when it   *)
(* enters a call of the controller and gives it back when the call         *)
(* returns; the steps of one call follow each other with no step of        *)
(* another thread in between.  initialize() locks m_mutex and calls        *)
(* ensureCargoFlightPresent, whose countActiveCargoFlights locks it again: *)
(* where that blocks, initialize never returns and start() is not reached. *)
(***************************************************************************)
ctlFrame ==
    <<steadyNow, subject, lastCall, granted, concVars, relock, noise,
      schedVars, serviceVars, overload>>

At(t, pc) == controller.turn = t /\ worker[t].pc = pc

\* The loop test without the look at m_isPaused.
RunningWhilePaused(t) ==
    /\ controller.turn = "none"
    /\ controller.isRunning
    /\ ~controller.isCompleted
    /\ worker[t].pc = "idle"

\* while (m_isRunning && !m_isCompleted), if (m_isPaused) not taken, and the
\* call that follows has locked m_mutex.
Running(t) ==
    /\ controller.turn = "none"
    /\ controller.isRunning
    /\ ~controller.isCompleted
    /\ ~controller.isPaused
    /\ worker[t].pc = "idle"

\* The thread after its call has returned.
Finished(t) ==
    [pc |-> IF t = "main" THEN "initialized" ELSE "idle", index |-> 0,
     flight |-> 0,
     cycles |-> IF t = "generator" /\ worker[t].cycles < MaxCycles
                THEN worker[t].cycles + 1 ELSE worker[t].cycles]

\* SimulationController::initialize
initialize ==
    /\ controller.turn = "none"
    /\ worker["main"].pc = "constructed"
    /\ simTime' = 0
    /\ flights' = <<>>
    /\ runways' = [r \in RunwayId |-> NewRunway]
    /\ airlines' = [i \in DOMAIN AIRLINES |-> NewAirline(i)]
    /\ controller' = [NewController EXCEPT
                         !.turn = "main",
                         !.simulationDuration = controller.simulationDuration]
    /\ worker' = [worker EXCEPT !["main"].pc =
                     IF relock = "blocks" THEN "stuck" ELSE "ensure"]
    /\ UNCHANGED <<aircraft, ctlFrame>>

\* SimulationController::start
start ==
    /\ controller.turn = "none"
    /\ worker["main"].pc = "initialized"
    /\ ~controller.isRunning
    /\ controller' = [controller EXCEPT !.isRunning = TRUE, !.isPaused = FALSE]
    /\ worker' = [worker EXCEPT !["main"].pc = "started"]
    /\ UNCHANGED <<runways, aircraft, flights, simTime, airlines, ctlFrame>>

(***************************************************************************)
(* SimulationController::ensureCargoFlightPresent, run by initialize, by   *)
(* flightGenerationLoop and by monitoringLoop.                             *)
(***************************************************************************)
\* int cargoCount = countActiveCargoFlights(), and the branches on it
ensureCargoFlightPresent(t) ==
    /\ At(t, "ensure")
    /\ IF countActiveCargoFlights >= 1
       THEN /\ worker' = [worker EXCEPT ![t] = Finished(t)]
            /\ controller' = [controller EXCEPT !.turn = "none"]
       ELSE /\ worker' = [worker EXCEPT ![t].pc = "createCargoFlight",
                                        ![t].index = 1]
            /\ UNCHANGED controller
    /\ UNCHANGED <<runways, aircraft, flights, simTime, airlines, ctlFrame>>

\* The aircraft no flight has been made for.
Unflown ==
    Cardinality({a \in 1..Len(aircraft) :
                    \A f \in 1..Len(flights) : flights[f].aircraft # a})

\* The airlines createCargoFlight goes through, from position k on.
CargoAirlineFrom(k) ==
    LET able == {i \in k..Len(AIRLINES) :
                    /\ AIRLINES[i].type \in {"CARGO", "COMMERCIAL"}
                    /\ canScheduleFlight(i)}
    IN  IF able = {} THEN 0 ELSE Least(able)

\* SimulationController::createCargoFlight: one round of its loop over the
\* airlines, at the next airline that can create an aircraft.  An aircraft
\* that is not of type CARGO stays in the fleet and the loop goes on.
createCargoFlight(t) ==
    /\ At(t, "createCargoFlight")
    /\ UNCHANGED <<runways, simTime, ctlFrame>>
    /\ LET i == CargoAirlineFrom(worker[t].index) IN
       IF i = 0
       THEN /\ worker' = [worker EXCEPT ![t] = Finished(t)]
            /\ controller' = [controller EXCEPT !.turn = "none"]
            /\ UNCHANGED <<aircraft, flights, airlines>>
       ELSE /\ Len(aircraft) < MaxCtlAircraft
            /\ Len(flights) < MaxCtlFlights
            /\ \E direction \in FlightDirection :
               \E ac \in IF AIRLINES[i].type = "CARGO"
                         THEN createAircraft(i, direction, FALSE)
                         ELSE createAircraftOfType(i, direction, "CARGO") :
                  /\ aircraft' = Append(aircraft, ac)
                  /\ airlines' = [airlines EXCEPT
                                     ![i].fleet = @ \cup {Len(aircraft) + 1},
                                     ![i].activeFlights = @ + 1]
                  /\ IF ac.type = "CARGO"
                     THEN /\ flights' =
                                 Append(flights,
                                        NewFlight(Len(aircraft), simTime, FALSE)')
                          /\ worker' = [worker EXCEPT
                                           ![t].pc = "assignRunwayToCargo",
                                           ![t].flight = Len(flights) + 1]
                     ELSE /\ Unflown < MaxUnflown
                          /\ flights' = flights
                          /\ worker' = [worker EXCEPT ![t].index = i + 1]
            /\ UNCHANGED controller

\* if (assignRunwayToCargo(flight)) { flight->activate(m_currentTime);
\* m_activeCargoFlights++; }
assignCargoFlight(t) ==
    /\ At(t, "assignRunwayToCargo")
    /\ LET f == worker[t].flight
           o == assignRunwayToCargo(f, controller.deniedFlights) IN
       /\ Len(o.deniedFlights) <= MaxDenied
       /\ runways' = o.runways
       /\ aircraft' = o.aircraft
       /\ flights' = IF o.result
                     THEN [o.flights EXCEPT
                              ![f] = FlightActivate(@, simTime).flight]
                     ELSE o.flights
       /\ controller' = [controller EXCEPT
                            !.deniedFlights = o.deniedFlights,
                            !.activeCargoFlights = IF o.result THEN @ + 1 ELSE @,
                            !.turn = "none"]
    /\ worker' = [worker EXCEPT ![t] = Finished(t)]
    /\ UNCHANGED <<simTime, airlines, ctlFrame>>


(***************************************************************************)
(* flightGenerationLoop: scheduleNewFlights, then ensureCargoFlightPresent.*)
(***************************************************************************)
DirectionOrder == <<"NORTH", "SOUTH", "EAST", "WEST">>

\* scheduleNewFlights asks every airline for every direction in turn; k
\* numbers these calls of scheduleFlightIfNeeded.
CallAirline(k) == ((k - 1) \div Len(DirectionOrder)) + 1

CallDirection(k) == DirectionOrder[((k - 1) % Len(DirectionOrder)) + 1]

\* The next call from k on in which scheduleFlightIfNeeded goes through to
\* createAircraft, or 0.
NextScheduling(k) ==
    LET due == {j \in k..(Len(AIRLINES) * Len(DirectionOrder)) :
                   scheduleFlightIfNeededAccepts(CallAirline(j), simTime,
                                                 CallDirection(j))}
    IN  IF due = {} THEN 0 ELSE Least(due)

\* The runs followed have at most MaxEmergencies emergencies by a random
\* draw: flights made as emergencies, and aircraft of kind Emergency in
\* the fleet of an airline of another kind that the call asked no
\* particular kind for.
DrawnEmergencies ==
    Cardinality({f \in 1..Len(flights) : flights[f].isEmergency})
        + Cardinality({a \in 1..Len(aircraft) :
              /\ aircraft[a].type = "EMERGENCY"
              /\ \E i \in DOMAIN AIRLINES :
                    /\ a \in airlines[i].fleet
                    /\ AIRLINES[i].type # "EMERGENCY"})

EmergencyDraws ==
    IF DrawnEmergencies < MaxEmergencies THEN BOOLEAN ELSE {FALSE}

WithinEmergencies(i, ac) ==
    \/ ac.type # "EMERGENCY"
    \/ AIRLINES[i].type = "EMERGENCY"
    \/ DrawnEmergencies < MaxEmergencies

\* The loop iteration starts: scheduleNewFlights locks m_mutex.
flightGenerationLoop ==
    /\ Running("generator")
    /\ controller' = [controller EXCEPT !.turn = "generator"]
    /\ worker' = [worker EXCEPT !["generator"].pc = "scheduleNewFlights",
                                !["generator"].index = 1]
    /\ UNCHANGED <<runways, aircraft, flights, simTime, airlines, ctlFrame>>

\* SimulationController::scheduleNewFlights, one block of its loop body:
\* scheduleFlightIfNeeded adds an aircraft to the fleet, and the flight is
\* made for getAllAircraft().back().  getAllAircraft() lists the fleet in
\* the iteration order of an unordered_map, so back() is some aircraft of
\* the fleet.
scheduleNewFlights ==
    /\ At("generator", "scheduleNewFlights")
    /\ UNCHANGED <<runways, simTime, ctlFrame>>
    /\ LET k == NextScheduling(worker["generator"].index) IN
       IF k = 0
       THEN /\ worker' = [worker EXCEPT !["generator"].pc = "ensure"]
            /\ UNCHANGED <<aircraft, flights, airlines, controller>>
       ELSE LET i == CallAirline(k)
                direction == CallDirection(k) IN
            /\ Len(aircraft) < MaxCtlAircraft
            /\ Len(flights) < MaxCtlFlights
            /\ \E forceEmergency \in EmergencyDraws :
               \E ac \in createAircraft(i, direction, forceEmergency) :
                  /\ WithinEmergencies(i, ac)
                  /\ aircraft' = Append(aircraft, ac)
                  /\ airlines' = [airlines EXCEPT
                         ![i].fleet = @ \cup {Len(aircraft) + 1},
                         ![i].activeFlights = @ + 1,
                         ![i].lastFlightScheduleTime = simTime]
            /\ \E back \in airlines'[i].fleet, isEmergency \in EmergencyDraws :
                  /\ flights' = Append(flights,
                                       NewFlight(back, simTime, isEmergency)')
                  /\ controller' = [controller EXCEPT
                         !.activeCargoFlights =
                             IF aircraft'[back].type = "CARGO"
                             THEN @ + 1 ELSE @]
            /\ worker' = [worker EXCEPT !["generator"].index = k + 1]

(***************************************************************************)
(* simulationLoop: updateSimulation, then the clock.                       *)
(***************************************************************************)
CtlTick == TickStep \div 5

\* The next flight from k on with one of the statuses, or 0.
NextWithStatus(k, statuses) ==
    LET found == {f \in k..Len(flights) : flights[f].status \in statuses}
    IN  IF found = {} THEN 0 ELSE Least(found)

InFleet(a) == \E i \in DOMAIN airlines : a \in airlines[i].fleet

\* The runs followed have at most MaxFaults ground faults.
Faults(fleet) ==
    Cardinality({a \in 1..Len(fleet) : fleet[a].hasGroundFault})

WithinFaults(fleet) == Faults(fleet) <= MaxFaults \/ Faults(fleet) <= Faults(aircraft)

\* Aircraft::update on aircraft 1..k, for those in a fleet.
RECURSIVE UpdatedFleet(_)
UpdatedFleet(k) ==
    IF k = 0 THEN {<<>>}
    ELSE {Append(fleet, ac) :
             fleet \in UpdatedFleet(k - 1),
             ac \in IF InFleet(k) THEN AfterUpdate(aircraft[k])
                     ELSE {aircraft[k]}}

\* updateSimulation locks m_mutex; airline->updateAllAircraft for each
\* airline.
updateAllAircraft ==
    /\ Running("simulation")
    /\ controller' = [controller EXCEPT !.turn = "simulation"]
    /\ worker' = [worker EXCEPT !["simulation"].pc = "updateFlights",
                                !["simulation"].index = 1]
    /\ aircraft' \in {fleet \in UpdatedFleet(Len(aircraft)) : WithinFaults(fleet)}
    /\ UNCHANGED <<runways, flights, simTime, airlines, ctlFrame>>

\* flight->update for the next flight that is ACTIVE or EMERGENCY (on any
\* other flight update does nothing), and the cargo counter.
flightUpdateLoop ==
    /\ At("simulation", "updateFlights")
    /\ LET f == NextWithStatus(worker["simulation"].index,
                               {"ACTIVE", "EMERGENCY"}) IN
       IF f = 0
       THEN /\ worker' = [worker EXCEPT !["simulation"].pc = "activateScheduled",
                                        !["simulation"].index = 1]
            /\ UNCHANGED <<runways, aircraft, flights, controller>>
       ELSE LET a == flights[f].aircraft IN
            \E o \in FlightUpdate(flights[f], runways, aircraft[a], simTime) :
               /\ WithinFaults([aircraft EXCEPT ![a] = o.aircraft])
               /\ flights' = [flights EXCEPT ![f] = o.flight]
               /\ runways' = o.runways
               /\ aircraft' = [aircraft EXCEPT ![a] = o.aircraft]
               /\ controller' = [controller EXCEPT
                      !.activeCargoFlights =
                          IF /\ aircraft[a].type = "CARGO"
                             /\ o.flight.status \in TerminalStatus
                          THEN @ - 1 ELSE @]
               /\ worker' = [worker EXCEPT !["simulation"].index = f + 1]
    /\ UNCHANGED <<simTime, airlines, ctlFrame>>

\* The loop over the SCHEDULED flights: assignRunwayToFlight for a flight
\* without a runway, activate for a flight with one.
activateScheduled ==
    /\ At("simulation", "activateScheduled")
    /\ LET f == NextWithStatus(worker["simulation"].index, {"SCHEDULED"}) IN
       IF f = 0
       THEN /\ worker' = [worker EXCEPT !["simulation"].pc = "tick"]
            /\ UNCHANGED <<runways, aircraft, flights, controller>>
       ELSE LET o == IF /\ simTime >= flights[f].scheduledTime
                        /\ flights[f].assignedRunway = Null
                     THEN assignRunwayToFlight(f, controller.deniedFlights)
                     ELSE [flights |-> flights, runways |-> runways,
                           aircraft |-> aircraft,
                           deniedFlights |-> controller.deniedFlights,
                           result |-> FALSE] IN
            /\ Len(o.deniedFlights) <= MaxDenied
            /\ runways' = o.runways
            /\ aircraft' = o.aircraft
            /\ flights' =
                   IF /\ simTime >= flights[f].scheduledTime
                      /\ o.flights[f].assignedRunway # Null
                   THEN [o.flights EXCEPT
                            ![f] = FlightActivate(@, simTime).flight]
                   ELSE o.flights
            /\ controller' = [controller EXCEPT
                                 !.deniedFlights = o.deniedFlights]
            /\ worker' = [worker EXCEPT !["simulation"].index = f + 1]
    /\ UNCHANGED <<simTime, airlines, ctlFrame>>

\* m_currentTime += deltaTime, and the test for the end of the simulation.
\* deltaTime is at most 0.1 s, and the times anything waits for (the
\* offsets of the flight plans followed, the generation intervals) are
\* multiples of 15 s: the iterations modelled are those at the multiples of
\* 15 s, each followed by the clock's move to the next one.  At MaxCtlTime
\* the clock stays, for iterations that follow each other closely.
advanceTime ==
    /\ At("simulation", "tick")
    /\ simTime' = IF simTime + CtlTick <= MaxCtlTime
                  THEN simTime + CtlTick ELSE simTime
    /\ controller' = [controller EXCEPT
                         !.isCompleted =
                             simTime' >= controller.simulationDuration,
                         !.turn = "none"]
    /\ worker' = [worker EXCEPT !["simulation"] = Finished("simulation")]
    /\ UNCHANGED <<runways, aircraft, flights, airlines, ctlFrame>>


(***************************************************************************)
(* monitoringLoop: the counter follows countActiveCargoFlights, and with   *)
(* no active cargo flight ensureCargoFlightPresent runs.  The bodies of    *)
(* processEmergencyFlights, handleGroundFaults, updateStatistics and       *)
(* validateSimulationState are not part of the sources.                    *)
(***************************************************************************)
monitoringLoop ==
    /\ Running("monitoring")
    /\ IF countActiveCargoFlights = 0
       THEN /\ controller' = [controller EXCEPT
                                 !.activeCargoFlights = countActiveCargoFlights,
                                 !.turn = "monitoring"]
            /\ worker' = [worker EXCEPT !["monitoring"].pc = "ensure"]
       ELSE /\ controller' = [controller EXCEPT
                                 !.activeCargoFlights = countActiveCargoFlights]
            /\ UNCHANGED worker
    /\ UNCHANGED <<runways, aircraft, flights, simTime, airlines, ctlFrame>>

(***************************************************************************)
(* deniedFlightLoop: processDeniedFlights.                                 *)
(***************************************************************************)
maxAttemptsPerCycle == 5

\* The loop iteration starts: processDeniedFlights locks m_mutex.
deniedFlightLoop ==
    /\ Running("denied")
    /\ controller' = [controller EXCEPT !.turn = "denied"]
    /\ worker' = [worker EXCEPT !["denied"].pc = "processDeniedFlights",
                                !["denied"].index = 0]
    /\ UNCHANGED <<runways, aircraft, flights, simTime, airlines, ctlFrame>>

\* One turn of the while loop of processDeniedFlights, or its end.  A
\* flight the assignment refuses has been queued by
\* addDeniedFlightForRescheduling and is pushed once more here.
processDeniedFlights ==
    /\ At("denied", "processDeniedFlights")
    /\ IF \/ controller.deniedFlights = <<>>
          \/ worker["denied"].index >= maxAttemptsPerCycle
       THEN /\ worker' = [worker EXCEPT !["denied"] = Finished("denied")]
            /\ controller' = [controller EXCEPT !.turn = "none"]
            /\ UNCHANGED <<runways, aircraft, flights>>
       ELSE LET f == Head(controller.deniedFlights)
                rest == Tail(controller.deniedFlights) IN
            /\ worker' = [worker EXCEPT !["denied"].index = @ + 1]
            /\ IF \/ flights[f].status \in TerminalStatus
                  \/ flights[f].assignedRunway # Null
               THEN /\ controller' = [controller EXCEPT !.deniedFlights = rest]
                    /\ UNCHANGED <<runways, aircraft, flights>>
               ELSE LET cargo == aircraft[flights[f].aircraft].type = "CARGO"
                        o == IF cargo THEN assignRunwayToCargo(f, rest)
                             ELSE assignRunwayToFlight(f, rest)
                        scheduled == flights[f].status = "SCHEDULED" IN
                    /\ Len(o.deniedFlights) < MaxDenied
                    /\ runways' = o.runways
                    /\ aircraft' = o.aircraft
                    /\ flights' =
                           IF /\ o.result
                              /\ scheduled
                              /\ simTime >= flights[f].scheduledTime
                           THEN [o.flights EXCEPT
                                    ![f] = FlightActivate(@, simTime).flight]
                           ELSE o.flights
                    /\ controller' = [controller EXCEPT
                           !.deniedFlights =
                               IF o.result THEN o.deniedFlights
                               ELSE Append(o.deniedFlights, f),
                           !.activeCargoFlights =
                               IF o.result /\ cargo /\ scheduled
                               THEN @ + 1 ELSE @]
    /\ UNCHANGED <<simTime, airlines, ctlFrame>>

(***************************************************************************)
(* The controller-level specification: a SimulationController is made,     *)
(* initialized and started, and its four loops run.  A loop iteration      *)
(* takes its steps without another thread's steps in between; the builds   *)
(* differ in what a second lock of a held std::mutex does and in which     *)
(* createAircraft the two-argument call with an AircraftType reaches.      *)
(***************************************************************************)
InitCtl ==
    /\ steadyNow = 0
    /\ runways = [r \in RunwayId |-> NewRunway]
    /\ aircraft = <<>>
    /\ subject = "RWY_A"
    /\ lastCall = NoCall
    /\ granted = [r \in RunwayId |-> NoGrant]
    /\ runwayMutex = [r \in RunwayId |-> "free"]
    /\ task = [t \in Tasks |-> IdleTask]
    /\ simTime = 0
    /\ relock \in {"blocks", "proceeds"}
    /\ noise = {0}
    /\ flights = <<>>
    /\ NoScheduler
    /\ NoServices
    /\ airlines = [i \in DOMAIN AIRLINES |-> NewAirline(i)]
    /\ controller = NewController
    /\ worker = [t \in Threads |->
                    NewWorker(IF t = "main" THEN "constructed" ELSE "idle")]
    /\ overload \in {"type", "flag"}

NextCtl ==
    \/ initialize
    \/ start
    \/ \E t \in {"main", "generator", "monitoring"} :
          \/ ensureCargoFlightPresent(t)
          \/ createCargoFlight(t)
          \/ assignCargoFlight(t)
    \/ flightGenerationLoop
    \/ scheduleNewFlights
    \/ updateAllAircraft
    \/ flightUpdateLoop
    \/ activateScheduled
    \/ advanceTime
    \/ monitoringLoop
    \/ deniedFlightLoop
    \/ processDeniedFlights

SpecCtl == InitCtl /\ [][NextCtl]_vars


(***************************************************************************)
(* C6: from the end of the first cycle of the flight generator until the   *)
(* simulation ends, at every instant at least one Cargo flight has a       *)
(* status that is not Completed, Canceled or Diverted, whatever flights    *)
(* complete, are canceled, or fill the fleets in the meantime.             *)
(***************************************************************************)
C6_CargoPresent ==
    (worker["generator"].cycles >= 1 /\ ~controller.isCompleted)
        => \E f \in 1..Len(flights) :
              /\ aircraft[flights[f].aircraft].type = "CARGO"
              /\ flights[f].status \notin TerminalStatus

(***************************************************************************)
(* C10: while a flight holds a runway, a further assignRunway for any      *)
(* runway is refused and changes nothing, so that a flight's runway stays  *)
(* the one it holds until the release; and no aircraft is ever the         *)
(* occupant of two runways at the same time.                               *)
(***************************************************************************)
C10_NoSecondAssign ==
    \A f \in 1..Len(flights) :
        (flights[f].assignedRunway # Null /\ f <= Len(flights'))
            => flights'[f].assignedRunway \in {flights[f].assignedRunway, Null}

C10_OneRunwayPerAircraft ==
    \A a \in 1..Len(aircraft) :
        Cardinality({r \in RunwayId : runways[r].assignedAircraft = a}) <= 1

C10_HoldsOneRunway ==
    [][C10_NoSecondAssign /\ C10_OneRunwayPerAircraft']_vars


(***************************************************************************)
(* Either arbiter at work: the callers of the Runway class, or the         *)
(* FlightScheduler of source.cpp.  A run is a run of one of the two        *)
(* programs.                                                               *)
(***************************************************************************)
RunwayProgram == NoScheduler /\ NextRunway

SchedulerProgram ==
    /\ lastCall = NoCall
    /\ steadyNow = 0
    /\ subject = "RWY_A"
    /\ updateSimulation

NextArbiters == RunwayProgram \/ SchedulerProgram

SpecArbiters == InitRunway /\ [][NextArbiters]_vars

(***************************************************************************)
(* C11: RWY-A is only ever occupied by aircraft whose direction is North   *)
(* or South, and RWY-B only by aircraft whose direction is East or West,   *)
(* under Runway::assignAircraft and under FlightScheduler::assignRunways.  *)
(***************************************************************************)
C11_Directions ==
    [RWY_A |-> {"NORTH", "SOUTH"}, RWY_B |-> {"EAST", "WEST"}]

C11_RunwayOccupants ==
    \A r \in DOMAIN C11_Directions :
        runways[r].assignedAircraft # nullptr
            => aircraft[runways[r].assignedAircraft].direction
                   \in C11_Directions[r]

C11_SchedulerOccupants ==
    \A r \in DOMAIN C11_Directions :
        scheduler.runwayOccupant[r] # nullptr
            => scheduler.allFlights[scheduler.runwayOccupant[r]].direction
                   \in C11_Directions[r]

C11_DirectionOfRunway == C11_RunwayOccupants /\ C11_SchedulerOccupants

\* C11 witness: RWY-A, free again after an aircraft has used it, has just
\* refused an aircraft from the East.
C11_Witness ==
    /\ lastCall.op = "assignAircraft"
    /\ lastCall.runway = "RWY_A"
    /\ lastCall.arg # nullptr
    /\ aircraft[lastCall.arg].direction = "EAST"
    /\ lastCall.pre.status = "AVAILABLE"
    /\ lastCall.pre.usageCount >= 1
    /\ ~lastCall.result
    /\ runways["RWY_A"].assignedAircraft = nullptr


(***************************************************************************)
(* C12: if the aircraft of an Active or Emergency flight has its ground    *)
(* fault flag set while the flight holds a runway, then after the next     *)
(* Flight::update the flight is Canceled with the ground fault as its      *)
(* reason, and that runway is Available with no occupant.                  *)
(***************************************************************************)
C12_Faulted(f) ==
    /\ flights[f].status \in {"ACTIVE", "EMERGENCY"}
    /\ flights[f].assignedRunway # Null
    /\ aircraft[flights[f].aircraft].hasGroundFault
    /\ Callable(f)

C12_Handled(f, o) ==
    /\ o.flight.status = "CANCELED"
    /\ o.flight.statusReason = "Ground fault detected"
    /\ o.flight.assignedRunway = Null
    /\ o.runways[flights[f].assignedRunway].status = "AVAILABLE"
    /\ o.runways[flights[f].assignedRunway].assignedAircraft = nullptr

C12_FaultCancels ==
    \A f \in FlightIds :
        C12_Faulted(f)
            => \A o \in FlightUpdate(flights[f], runways,
                                     aircraft[flights[f].aircraft], simTime) :
                   C12_Handled(f, o)



(***************************************************************************)
(* SpeedMonitor.  Speeds are whole km/h; a history is the sequence of the  *)
(* speeds recorded for one aircraft, oldest first.                         *)
(***************************************************************************)
MaxMonitorTicks == 3

MAX_HISTORY == 10

RAPID_CHANGE_THRESHOLD == 50

\* The speeds a caller of Aircraft::setSpeed holds an aircraft at.
HeldSpeeds == {650}

\* A monitor that has seen the aircraft ids: operator[] of its maps has
\* made an empty entry for each.
MonitorOf(ids) ==
    [NewSpeedMonitor EXCEPT !.speedHistory = [a \in ids |-> <<>>],
                            !.activeAVNs = [a \in ids |-> <<>>]]

\* A variant that keeps every sample.
recordSpeedDataPointKeepAll(M, a, speed) ==
    [M EXCEPT !.speedHistory[a] = Append(@, speed)]

\* SpeedMonitor::recordSpeedDataPoint
recordSpeedDataPoint(M, a, speed) ==
    LET history == Append(M.speedHistory[a], speed)
    IN  [M EXCEPT !.speedHistory[a] =
            IF Len(history) > MAX_HISTORY THEN Tail(history) ELSE history]

Abs(x) == IF x < 0 THEN -x ELSE x

RECURSIVE TotalChange(_, _)
TotalChange(history, i) ==
    IF i > Len(history) THEN 0
    ELSE Abs(history[i] - history[i - 1]) + TotalChange(history, i + 1)

\* SpeedMonitor::detectRapidSpeedChanges: the average change between
\* consecutive points is above the threshold.
detectRapidSpeedChanges(M, a) ==
    LET history == M.speedHistory[a]
    IN  /\ Len(history) >= 3
        /\ TotalChange(history, 2) > RAPID_CHANGE_THRESHOLD * (Len(history) - 1)

\* SpeedMonitor::recordViolation
recordViolation(M, a, actualSpeed, limits, currentTime) ==
    [M EXCEPT !.violations =
        Append(@, [aircraftId |-> a, phase |-> aircraft[a].currentPhase,
                   actualSpeed |-> actualSpeed,
                   minAllowedSpeed |-> limits.min,
                   maxAllowedSpeed |-> limits.max,
                   timestamp |-> currentTime])]

\* SpeedMonitor::generateAVN, with the Aircraft::issueAVN it ends in: the
\* text of the notice names the description, the time, the speed and the
\* phase.
generateAVN(M, a, description, currentTime) ==
    [M EXCEPT !.activeAVNs[a] =
        Append(@, [description |-> description, time |-> currentTime,
                   speed |-> aircraft[a].currentSpeed,
                   phase |-> aircraft[a].currentPhase])]

\* SpeedMonitor::monitorAircraftSpeed
monitorAircraftSpeed(M, a, currentTime) ==
    IF a = nullptr THEN M
    ELSE LET phase == aircraft[a].currentPhase
             speed == aircraft[a].currentSpeed
             H == recordSpeedDataPoint(M, a, speed)
             limits == SPEED_LIMITS[phase]
             isViolation == speed < limits.min \/ speed > limits.max
             hasRapidChanges == detectRapidSpeedChanges(H, a)
         IN  IF isViolation \/ hasRapidChanges
             THEN generateAVN(
                      recordViolation(H, a, speed, limits, currentTime), a,
                      IF hasRapidChanges
                      THEN "Rapid and unsafe speed changes detected"
                      ELSE "Speed limit violation",
                      currentTime)
             ELSE H

\* SpeedMonitor::update: every aircraft of the list, in order.
RECURSIVE MonitorFrom(_, _, _)
MonitorFrom(M, a, currentTime) ==
    IF a > Len(aircraft) THEN M
    ELSE MonitorFrom(monitorAircraftSpeed(M, a, currentTime), a + 1,
                     currentTime)

monitorFrame ==
    <<runways, steadyNow, subject, granted, lastCall, flightVars, concVars,
      schedVars, ctlVars, billing, scheduleLog, locking>>

\* The controller's tick: the clock moves and the monitor looks at every
\* aircraft.
SpeedMonitorUpdate ==
    /\ monitor.currentTime < MaxMonitorTicks
    /\ monitor' = [MonitorFrom(monitor, 1, monitor.currentTime + 1)
                      EXCEPT !.currentTime = @ + 1]
    /\ UNCHANGED <<aircraft, monitorFrame>>

\* Aircraft::setSpeed: the speed is written without validation.
setSpeed(a, newSpeed) ==
    /\ aircraft' = [aircraft EXCEPT ![a].currentSpeed = newSpeed]
    /\ UNCHANGED <<monitor, monitorFrame>>

\* The aircraft of the monitor's specification: an arrival or a departure.
InitMonitor ==
    /\ steadyNow = 0
    /\ runways = [r \in RunwayId |-> NewRunway]
    /\ \E direction \in {"NORTH", "EAST"} :
          aircraft = <<NewAircraft("COMMERCIAL", direction,
                                   SPEED_LIMITS[setInitialPhase(direction)].min)>>
    /\ subject = "RWY_A"
    /\ lastCall = NoCall
    /\ granted = [r \in RunwayId |-> NoGrant]
    /\ runwayMutex = [r \in RunwayId |-> "free"]
    /\ task = [t \in Tasks |-> IdleTask]
    /\ NoFlights
    /\ NoScheduler
    /\ NoController
    /\ monitor = MonitorOf(DOMAIN aircraft)
    /\ billing = NewBilling
    /\ scheduleLog = {}
    /\ locking = NoLocking

NextMonitor ==
    \/ SpeedMonitorUpdate
    \/ \E a \in DOMAIN aircraft, v \in HeldSpeeds : setSpeed(a, v)
    \/ \E a \in DOMAIN aircraft : transitionToNextPhase(a)

SpecMonitor == InitMonitor /\ [][NextMonitor]_vars

(***************************************************************************)
(* C13: once an AVN has been issued for an aircraft in a phase, no further *)
(* AVN is issued for that aircraft while it stays in that phase: no two    *)
(* AVNs of one aircraft name the same phase (an aircraft passes through    *)
(* each phase once).                                                       *)
(***************************************************************************)
C13_OneAvnPerPhase ==
    \A a \in DOMAIN monitor.activeAVNs :
        \A i, j \in DOMAIN monitor.activeAVNs[a] :
            i # j => monitor.activeAVNs[a][i].phase
                         # monitor.activeAVNs[a][j].phase


(***************************************************************************)
(* source.cpp: the speeds of ArrivalFlight and DepartureFlight, the AVN    *)
(* objects their checkViolation creates and FlightScheduler::updateFlights *)
(* collects.  The flights are the records of NewScheduledFlight with the   *)
(* speed members added.                                                    *)
(***************************************************************************)
MaxAVNs == 2

MaxBillingTime == 8

HOLDING_MIN_SPEED == 400
HOLDING_MAX_SPEED == 600
APPROACH_MIN_SPEED == 240
APPROACH_MAX_SPEED == 290
LANDING_START_SPEED == 240
LANDING_END_SPEED == 30
TAXI_MIN_SPEED == 15
TAXI_MAX_SPEED == 30
GATE_MAX_SPEED == 5
TAKEOFF_MAX_SPEED == 290
CLIMB_MIN_SPEED == 250
CLIMB_MAX_SPEED == 463
CRUISE_MIN_SPEED == 800
CRUISE_MAX_SPEED == 900
MAX_VIOLATION_SPEED_EXCESS == 40

\* Money is counted in units of 100000 / 2^26 rupees: the unit in which the
\* product of a fine and the float constant below is a whole number.
Lakh == 2 ^ 26

COMMERCIAL_FINE == 5 * Lakh

CARGO_FINE == 7 * Lakh

\* The float nearest to num / den, as a multiple of 2^-26, the spacing of
\* the floats between 1/8 and 1/4.
FloatOf(num, den) == (num * 2 ^ 26 + den \div 2) \div den

\* const float SERVICE_FEE_PERCENTAGE = 0.15
SERVICE_FEE_PERCENTAGE == FloatOf(15, 100)

\* fineAmount * SERVICE_FEE_PERCENTAGE in double arithmetic, which is exact
\* for the two fines.
ServiceFee(fineAmount) == (fineAmount \div Lakh) * SERVICE_FEE_PERCENTAGE

NoAVN == [id |-> 0]

\* AVN::AVN, constructed at the time now of the wall clock.
AVN(id, flight, type, recordedSpeed, speedMin, speedMax, now) ==
    LET fineAmount == IF type = "COMMERCIAL" THEN COMMERCIAL_FINE
                      ELSE CARGO_FINE
    IN  [id |-> id, flight |-> flight, aircraftType |-> type,
         recordedSpeed |-> recordedSpeed,
         permissibleSpeedMin |-> speedMin,
         permissibleSpeedMax |-> speedMax,
         issueTime |-> now, dueDate |-> now + 3 * 24 * 60 * 60,
         fineAmount |-> fineAmount, serviceFee |-> ServiceFee(fineAmount),
         totalAmount |-> fineAmount + ServiceFee(fineAmount),
         status |-> "UNPAID"]

\* The members of Aircraft that the speed code of source.cpp uses.
WithSpeed(fl, speed) ==
    [type |-> fl.type, direction |-> fl.direction, priority |-> fl.priority,
     isEmergency |-> fl.isEmergency, assignedRunway |-> fl.assignedRunway,
     state |-> fl.state, stateTime |-> fl.stateTime,
     currentSpeed |-> speed, hasActiveViolation |-> FALSE,
     currentViolation |-> NoAVN, violatedStates |-> {},
     maintainViolationSpeed |-> FALSE, violationSpeed |-> 0]

\* What the random distributions of one updateStatus produce: whether a
\* violation is simulated, its excess speed, the side of the cruise band
\* it leaves on, and where in its range a uniform speed falls.
SpeedDraws ==
    [inject : BOOLEAN, excess : {5, MAX_VIOLATION_SPEED_EXCESS},
     above : BOOLEAN, upper : BOOLEAN]

Uniform(draw, min, max) == IF draw.upper THEN max ELSE min

Max2(a, b) == IF a > b THEN a ELSE b

Min2(a, b) == IF a < b THEN a ELSE b

\* The switch of ArrivalFlight::updateStatus: the speed it leaves.
ArrivalSpeed(fl, next, draw) ==
    LET changed == next.state # fl.state
        t == fl.stateTime + 1
    IN  CASE fl.state = "HOLDING" ->
                 IF changed
                 THEN Uniform(draw, APPROACH_MIN_SPEED, APPROACH_MAX_SPEED)
                 ELSE fl.currentSpeed
          [] fl.state = "APPROACH" ->
                 IF changed THEN LANDING_START_SPEED ELSE fl.currentSpeed
          [] fl.state = "LANDING" ->
                 IF changed
                 THEN Uniform(draw, TAXI_MIN_SPEED, TAXI_MAX_SPEED)
                 ELSE IF ~fl.maintainViolationSpeed
                 THEN Max2(LANDING_END_SPEED,
                           LANDING_START_SPEED
                               - ((LANDING_START_SPEED - LANDING_END_SPEED) * t)
                                     \div LANDING_TIME)
                 ELSE fl.currentSpeed
          [] fl.state = "TAXI" -> IF changed THEN 0 ELSE fl.currentSpeed
          [] fl.state = "AT_GATE" -> 0

\* The switch of DepartureFlight::updateStatus: the speed it leaves.
DepartureSpeed(fl, next, draw) ==
    LET changed == next.state # fl.state
        t == fl.stateTime + 1
    IN  CASE fl.state = "AT_GATE" ->
                 IF changed
                 THEN Uniform(draw, TAXI_MIN_SPEED, TAXI_MAX_SPEED) ELSE 0
          [] fl.state = "TAXI" -> IF changed THEN 0 ELSE fl.currentSpeed
          [] fl.state = "TAKEOFF_ROLL" ->
                 IF changed
                 THEN Uniform(draw, CLIMB_MIN_SPEED, CLIMB_MAX_SPEED)
                 ELSE IF ~fl.maintainViolationSpeed
                 THEN Min2(TAKEOFF_MAX_SPEED,
                           (TAKEOFF_MAX_SPEED * t) \div TAKEOFF_TIME)
                 ELSE fl.currentSpeed
          [] fl.state = "CLIMB" ->
                 IF changed
                 THEN Uniform(draw, CRUISE_MIN_SPEED, CRUISE_MAX_SPEED)
                 ELSE fl.currentSpeed
          [] fl.state = "CRUISE" -> fl.currentSpeed

IsArrival(fl) == fl.direction \in {"NORTH", "SOUTH"}

\* The speed a simulated violation sets in a state, or -1 where none is
\* simulated in that state.
ViolationSpeed(fl, draw) ==
    IF IsArrival(fl)
    THEN CASE fl.state = "HOLDING" -> HOLDING_MAX_SPEED + draw.excess
           [] fl.state = "APPROACH" -> APPROACH_MAX_SPEED + draw.excess
           [] fl.state = "LANDING" ->
                  IF fl.stateTime > LANDING_TIME \div 2
                  THEN fl.currentSpeed + draw.excess ELSE -1
           [] fl.state = "TAXI" -> TAXI_MAX_SPEED + draw.excess \div 2
           [] OTHER -> -1
    ELSE CASE fl.state = "TAXI" -> TAXI_MAX_SPEED + draw.excess \div 2
           [] fl.state = "TAKEOFF_ROLL" ->
                  IF fl.stateTime > TAKEOFF_TIME \div 2
                  THEN TAKEOFF_MAX_SPEED + draw.excess ELSE -1
           [] fl.state = "CLIMB" -> CLIMB_MAX_SPEED + draw.excess
           [] fl.state = "CRUISE" ->
                  IF draw.above THEN CRUISE_MAX_SPEED + draw.excess
                  ELSE CRUISE_MIN_SPEED - draw.excess
           [] OTHER -> -1

\* updateStatus up to its call of checkViolation.
SpeedUpdateStatus(fl, draw) ==
    LET next == updateStatus(fl)
        changed == next.state # fl.state
        moved == [next EXCEPT
                     !.currentSpeed =
                         IF IsArrival(fl) THEN ArrivalSpeed(fl, next, draw)
                         ELSE DepartureSpeed(fl, next, draw),
                     !.maintainViolationSpeed =
                         IF changed \/ (IsArrival(fl) /\ fl.state = "AT_GATE")
                         THEN FALSE ELSE @]
    IN  IF ~moved.hasActiveViolation /\ ~moved.isEmergency
           /\ ~moved.maintainViolationSpeed
        THEN IF draw.inject /\ ViolationSpeed(moved, draw) >= 0
             THEN [moved EXCEPT !.currentSpeed = ViolationSpeed(moved, draw),
                                !.maintainViolationSpeed = TRUE,
                                !.violationSpeed = ViolationSpeed(moved, draw)]
             ELSE moved
        ELSE IF moved.maintainViolationSpeed
        THEN [moved EXCEPT !.currentSpeed = moved.violationSpeed]
        ELSE moved

Limits(min, max) == [min |-> min, max |-> max]

NoViolation == Limits(-1, -1)

\* The switch of checkViolation: the limits it reports, if it finds a
\* violation.
ViolatedLimits(fl) ==
    LET v == fl.currentSpeed
    IN  IF IsArrival(fl)
        THEN CASE fl.state = "HOLDING" ->
                      IF v > HOLDING_MAX_SPEED
                      THEN Limits(HOLDING_MIN_SPEED, HOLDING_MAX_SPEED)
                      ELSE NoViolation
               [] fl.state = "APPROACH" ->
                      IF v < APPROACH_MIN_SPEED \/ v > APPROACH_MAX_SPEED
                      THEN Limits(APPROACH_MIN_SPEED, APPROACH_MAX_SPEED)
                      ELSE NoViolation
               [] fl.state = "LANDING" ->
                      IF \/ v > LANDING_START_SPEED
                         \/ fl.stateTime >= LANDING_TIME /\ v > LANDING_END_SPEED
                      THEN Limits(0, LANDING_START_SPEED) ELSE NoViolation
               [] fl.state = "TAXI" ->
                      IF v > TAXI_MAX_SPEED
                      THEN Limits(TAXI_MIN_SPEED, TAXI_MAX_SPEED)
                      ELSE NoViolation
               [] fl.state = "AT_GATE" ->
                      IF v > GATE_MAX_SPEED THEN Limits(0, GATE_MAX_SPEED)
                      ELSE NoViolation
        ELSE CASE fl.state = "AT_GATE" ->
                      IF v > GATE_MAX_SPEED THEN Limits(0, GATE_MAX_SPEED)
                      ELSE NoViolation
               [] fl.state = "TAXI" ->
                      IF v > TAXI_MAX_SPEED
                      THEN Limits(TAXI_MIN_SPEED, TAXI_MAX_SPEED)
                      ELSE NoViolation
               [] fl.state = "TAKEOFF_ROLL" ->
                      IF v > TAKEOFF_MAX_SPEED
                      THEN Limits(0, TAKEOFF_MAX_SPEED) ELSE NoViolation
               [] fl.state = "CLIMB" ->
                      IF v > CLIMB_MAX_SPEED
                      THEN Limits(CLIMB_MIN_SPEED, CLIMB_MAX_SPEED)
                      ELSE NoViolation
               [] fl.state = "CRUISE" ->
                      IF v < CRUISE_MIN_SPEED \/ v > CRUISE_MAX_SPEED
                      THEN Limits(CRUISE_MIN_SPEED, CRUISE_MAX_SPEED)
                      ELSE NoViolation

\* Whether checkViolation creates an AVN: the state has not been cited
\* before and the speed is outside its limits.
Violates(fl) ==
    fl.state \notin fl.violatedStates /\ ViolatedLimits(fl) # NoViolation

\* The static avnIdCounter of the checkViolation a flight runs: one in
\* ArrivalFlight::checkViolation, another in DepartureFlight::checkViolation.
CounterOf(fl) == IF IsArrival(fl) THEN "arrival" ELSE "departure"

\* ArrivalFlight::checkViolation and DepartureFlight::checkViolation on
\* flight f of the billing state B.
checkViolation(B, f) ==
    LET fl == B.flights[f]
    IN  IF Violates(fl)
        THEN [B EXCEPT
                 !.flights[f].hasActiveViolation = TRUE,
                 !.flights[f].currentViolation =
                     AVN(B.avnIdCounter[CounterOf(fl)], f, fl.type,
                         fl.currentSpeed, ViolatedLimits(fl).min,
                         ViolatedLimits(fl).max, B.now),
                 !.flights[f].violatedStates = @ \cup {fl.state},
                 !.avnIdCounter[CounterOf(fl)] = @ + 1]
        ELSE B

\* The body of the loop of FlightScheduler::updateFlights for flight f: the
\* AVN a flight holds goes on allAVNs and, as an AVN_CREATED message, into
\* the pipe to the AVN generator.
CollectViolation(B, f) ==
    LET fl == B.flights[f]
    IN  IF fl.hasActiveViolation /\ fl.currentViolation # NoAVN
        THEN [B EXCEPT
                 !.allAVNs = Append(@, fl.currentViolation),
                 !.atcToAvn =
                     Append(@, [type |-> "AVN_CREATED",
                                avnId |-> fl.currentViolation.id,
                                flight |-> f,
                                amount |-> fl.currentSpeed,
                                minSpeed |-> fl.currentViolation.permissibleSpeedMin,
                                maxSpeed |-> fl.currentViolation.permissibleSpeedMax,
                                details |-> IF fl.type = "COMMERCIAL"
                                            THEN "COMMERCIAL" ELSE "CARGO"]),
                 !.flights[f].hasActiveViolation = FALSE,
                 !.flights[f].currentViolation = NoAVN]
        ELSE B

\* What one updateStatus can leave of a flight, over the draws of its
\* random distributions; a violation is simulated only where allowed.
Outcomes(fl, allowed) ==
    {SpeedUpdateStatus(fl, draw) :
        draw \in {d \in SpeedDraws : d.inject => allowed}}

\* A simulated violation shows in the speed an updateStatus holds from then.
Simulated(before, after) ==
    after.maintainViolationSpeed /\ ~before.maintainViolationSpeed

\* FlightScheduler::updateFlights from flight f on: the states it can leave.
RECURSIVE BillingUpdateFrom(_, _)
BillingUpdateFrom(B, f) ==
    IF f > Len(B.flights) THEN {B}
    ELSE UNION {BillingUpdateFrom(
                    CollectViolation(
                        checkViolation(
                            [B EXCEPT !.flights[f] = o,
                                      !.simulated =
                                          IF Simulated(B.flights[f], o)
                                          THEN @ + 1 ELSE @],
                            f),
                        f),
                    f + 1) :
                   o \in Outcomes(B.flights[f], B.simulated < MaxAVNs)}

(***************************************************************************)
(* The processes of source.cpp around the scheduler.  main() makes five    *)
(* pipes and forks the AVN generator and StripePay; every process closes   *)
(* its read end of avnToAirline and of stripeToAvn, so a write to either   *)
(* raises SIGPIPE and ends the writer.  AirlinePortal is the class that    *)
(* writes payment requests; whoever runs it is the airline's side.         *)
(***************************************************************************)
\* AVNGenerator::AVNGenerator
NewAVNGenerator == [avns |-> <<>>, nextAVNId |-> 1000, running |-> TRUE]

\* The state of source.cpp when the simulation starts with the flights fls.
BillingOf(fls) ==
    [flights |-> fls, allAVNs |-> <<>>,
     avnIdCounter |-> [arrival |-> 1000, departure |-> 1000],
     now |-> 0, atcToAvn |-> <<>>, generator |-> NewAVNGenerator,
     airlineToStripe |-> <<>>, portal |-> "menu", stripePay |-> "running",
     replied |-> {}, simulated |-> 0]

\* simulationLoop: one second passes and updateFlights runs.
billingUpdateFlights ==
    /\ billing.now < MaxBillingTime
    /\ \E B \in BillingUpdateFrom([billing EXCEPT !.now = @ + 1], 1) :
           billing' = B
    /\ UNCHANGED <<runwayVars, concVars, flightVars, schedVars, ctlVars,
                   monitor, scheduleLog, locking>>

\* AVNGenerator::run with processMessage: the AVN_CREATED message at the
\* head of the pipe becomes an AVN of the generator, numbered by the
\* generator; the write of the response then ends the process.
avnGeneratorRun ==
    /\ billing.generator.running
    /\ billing.atcToAvn # <<>>
    /\ LET message == Head(billing.atcToAvn)
       IN  billing' =
               [billing EXCEPT
                   !.atcToAvn = Tail(@),
                   !.generator =
                       [avns |-> Append(@.avns,
                                        AVN(@.nextAVNId, message.flight,
                                            IF message.details = "COMMERCIAL"
                                            THEN "COMMERCIAL" ELSE "CARGO",
                                            message.amount, message.minSpeed,
                                            message.maxSpeed, billing.now)),
                        nextAVNId |-> @.nextAVNId + 1,
                        running |-> FALSE]]
    /\ UNCHANGED <<runwayVars, concVars, flightVars, schedVars, ctlVars,
                   monitor, scheduleLog, locking>>

\* AirlinePortal::payAVN: the request goes to StripePay after the method
\* has locked cout_mutex a second time in the same scope.
payAVN(avnId, amount) ==
    /\ billing.portal = "menu"
    /\ Len(billing.airlineToStripe) < MaxAVNs
    /\ billing' =
           IF relock = "blocks"
           THEN [billing EXCEPT !.portal = "blocked"]
           ELSE [billing EXCEPT
                    !.airlineToStripe =
                        Append(@, [type |-> "PAYMENT_REQUEST",
                                   avnId |-> avnId, amount |-> amount])]
    /\ UNCHANGED <<runwayVars, concVars, flightVars, schedVars, ctlVars,
                   monitor, scheduleLog, locking>>

\* StripePay::run with processPayment: the confirmation is written to
\* stripeToAvn, which no process reads.
stripePayRun ==
    /\ billing.stripePay = "running"
    /\ billing.airlineToStripe # <<>>
    /\ LET request == Head(billing.airlineToStripe)
       IN  billing' =
               [billing EXCEPT
                   !.airlineToStripe = Tail(@),
                   !.replied = IF request.type = "PAYMENT_REQUEST"
                               THEN @ \cup {request.avnId} ELSE @,
                   !.stripePay = IF request.type = "PAYMENT_REQUEST"
                                 THEN "ended" ELSE @]
    /\ UNCHANGED <<runwayVars, concVars, flightVars, schedVars, ctlVars,
                   monitor, scheduleLog, locking>>

\* FlightScheduler::processAVNPayment: the first AVN of the list with the
\* id is paid if the amount covers its total.
RECURSIVE FirstWithId(_, _, _)
FirstWithId(avns, avnId, i) ==
    IF i > Len(avns) THEN 0
    ELSE IF avns[i].id = avnId THEN i
    ELSE FirstWithId(avns, avnId, i + 1)

\* A variant that marks the AVN paid whatever the amount.
processAVNPaymentAnyAmount(B, avnId, amount) ==
    LET i == FirstWithId(B.allAVNs, avnId, 1)
    IN  IF i # 0 THEN [B EXCEPT !.allAVNs[i].status = "PAID"] ELSE B

processAVNPayment(B, avnId, amount) ==
    LET i == FirstWithId(B.allAVNs, avnId, 1)
    IN  IF i # 0 /\ amount >= B.allAVNs[i].totalAmount
        THEN [B EXCEPT !.allAVNs[i].status = "PAID"]
        ELSE B

\* Option 4 of the AVN menu of main: the operator pays the first AVN
\* with the id in full, unless it is paid already.
payFromMenu(avnId) ==
    /\ LET i == FirstWithId(billing.allAVNs, avnId, 1)
       IN  /\ i # 0
           /\ billing.allAVNs[i].status # "PAID"
           /\ billing' = processAVNPayment(billing, avnId,
                                           billing.allAVNs[i].totalAmount)
    /\ UNCHANGED <<runwayVars, concVars, flightVars, schedVars, ctlVars,
                   monitor, scheduleLog, locking>>

\* The ids the AVNs of the scheduler's list carry.
IssuedIds == {billing.allAVNs[i].id : i \in DOMAIN billing.allAVNs}

BillingAirlines == {"PIA", "Pakistan Airforce"}

\* An arrival from the north and a departure to the east that have their
\* runways.
ArrivalOf(airline) ==
    WithSpeed([NewScheduledFlight("NORTH", airline, FALSE)
                  EXCEPT !.assignedRunway = "RWY_A"],
              HOLDING_MIN_SPEED)

DepartureOf(airline) ==
    WithSpeed([NewScheduledFlight("EAST", airline, FALSE)
                  EXCEPT !.assignedRunway = "RWY_B"],
              0)

\* The variables of the other layers while source.cpp runs.
OutsideBilling ==
    /\ steadyNow = 0
    /\ runways = [r \in RunwayId |-> NewRunway]
    /\ aircraft = [a \in {1} |->
                      NewAircraft("CARGO", "NORTH",
                                  SPEED_LIMITS[setInitialPhase("NORTH")].min)]
    /\ subject = "RWY_A"
    /\ lastCall = NoCall
    /\ granted = [r \in RunwayId |-> NoGrant]
    /\ runwayMutex = [r \in RunwayId |-> "free"]
    /\ task = [t \in Tasks |-> IdleTask]
    /\ flights = <<>>
    /\ simTime = 0
    /\ relock \in {"blocks", "proceeds"}
    /\ noise = {0}
    /\ NoScheduler
    /\ NoController
    /\ monitor = NewSpeedMonitor
    /\ scheduleLog = {}
    /\ locking = NoLocking

InitBilling ==
    /\ OutsideBilling
    /\ \E arrival \in BillingAirlines, departure \in {"FedEx"} :
          billing = BillingOf(<<ArrivalOf(arrival), DepartureOf(departure)>>)

NextBilling ==
    \/ billingUpdateFlights
    \/ avnGeneratorRun
    \/ \E avnId \in IssuedIds :
           payAVN(avnId, billing.allAVNs[FirstWithId(billing.allAVNs, avnId, 1)].totalAmount)
    \/ stripePayRun
    \/ \E avnId \in IssuedIds : payFromMenu(avnId)

SpecBilling == InitBilling /\ [][NextBilling]_vars


(***************************************************************************)
(* C14: every AVN created has total = fine x 1.15, due time = issue time   *)
(* + 3 days, status Unpaid, and a fine of 500 000 when the kind of the     *)
(* aircraft is Commercial and 700 000 otherwise.  The AVNs created in a    *)
(* step are those the step adds to the scheduler's list or to the          *)
(* generator's.                                                            *)
(***************************************************************************)
Rupees(amount) == (amount \div 100000) * Lakh

\* total = fine x 23/20, stated on the fee to stay within 32-bit integers.
C14_TotalIsFinePlusFee(avn) ==
    (avn.totalAmount - avn.fineAmount) * 20 = avn.fineAmount * 3

C14_Terms(avn) ==
    /\ avn.dueDate = avn.issueTime + 3 * 24 * 60 * 60
    /\ avn.status = "UNPAID"
    /\ avn.fineAmount =
           IF billing.flights[avn.flight].type = "COMMERCIAL"
           THEN Rupees(500000) ELSE Rupees(700000)

C14_Created(old, new) == {new[i] : i \in DOMAIN new \ DOMAIN old}

C14_AvnTerms ==
    [][\A avn \in C14_Created(billing.allAVNs, billing'.allAVNs)
                  \cup C14_Created(billing.generator.avns,
                                   billing'.generator.avns) :
           C14_Terms(avn) /\ C14_TotalIsFinePlusFee(avn)]_vars


(***************************************************************************)
(* C15: the ids of the AVNs in the scheduler's list are at least 1000 and  *)
(* strictly increase in the order of issue, so that no two AVNs of the     *)
(* list share an id, whether arrival or departure flights raised them.     *)
(***************************************************************************)
C15_IdsIncrease ==
    /\ \A i \in DOMAIN billing.allAVNs : billing.allAVNs[i].id >= 1000
    /\ \A i, j \in DOMAIN billing.allAVNs :
           i < j => billing.allAVNs[i].id < billing.allAVNs[j].id


(***************************************************************************)
(* The runway queues on their own: a std::priority_queue ordered by        *)
(* CompareAircraftPriority, holding any flights that generateFlights can   *)
(* push, popped as the loops of assignRunways pop it.                      *)
(***************************************************************************)
MaxQueued == 4

\* The flights a queue is filled with: arrivals from the north of a
\* commercial and of a cargo airline, emergencies or not.
QueuedFlights ==
    {NewScheduledFlight("NORTH", airline, isEmergency) :
        airline \in {"PIA", "FedEx"}, isEmergency \in BOOLEAN}

\* The scheduler after the flights fls were generated and pushed, none of
\* them given a runway yet.
QueuedScheduler(fls) ==
    [NewFlightScheduler EXCEPT
        !.allFlights = fls,
        !.activeFlights = [i \in DOMAIN fls |-> i],
        !.runwayQueue["RWY_A"] = DOMAIN fls]

\* aircraft = runwayXQueue.top(); runwayXQueue.pop();
popQueue(r) ==
    /\ scheduler.runwayQueue[r] # {}
    /\ LET f == QueueTop(scheduler, scheduler.runwayQueue[r])
       IN  /\ scheduler' = [scheduler EXCEPT !.runwayQueue[r] = @ \ {f}]
           /\ lastCall' = [op |-> "pop", runway |-> r,
                           pre |-> scheduler.runwayQueue[r], result |-> f]
    /\ UNCHANGED <<runways, aircraft, steadyNow, subject, granted, concVars,
                   flightVars, ctlVars, serviceVars>>

InitQueue ==
    /\ steadyNow = 0
    /\ runways = [r \in RunwayId |-> NewRunway]
    /\ aircraft = [a \in {1} |->
                      NewAircraft("CARGO", "NORTH",
                                  SPEED_LIMITS[setInitialPhase("NORTH")].min)]
    /\ subject = "RWY_A"
    /\ lastCall = NoCall
    /\ granted = [r \in RunwayId |-> NoGrant]
    /\ runwayMutex = [r \in RunwayId |-> "free"]
    /\ task = [t \in Tasks |-> IdleTask]
    /\ NoFlights
    /\ NoController
    /\ NoServices
    /\ \E n \in 1..MaxQueued :
       \E fls \in [1..n -> QueuedFlights] : scheduler = QueuedScheduler(fls)

NextQueue == \E r \in RunwayId : popQueue(r)

SpecQueue == InitQueue /\ [][NextQueue]_vars

(***************************************************************************)
(* C16: the flight popped from a runway queue has the highest priority     *)
(* class of the flights that were in the queue and, among those of that    *)
(* class, the earliest scheduled time (flights are scheduled in the order  *)
(* of their indices).  An emergency at priority 3 queued behind three      *)
(* priority-1 arrivals is popped before all of them.                       *)
(***************************************************************************)
C16_Before(f, g) ==
    \/ scheduler.allFlights[f].priority > scheduler.allFlights[g].priority
    \/ /\ scheduler.allFlights[f].priority = scheduler.allFlights[g].priority
       /\ f < g

C16_PopsHighestPriority ==
    lastCall.op = "pop"
        => \A g \in lastCall.pre \ {lastCall.result} :
               C16_Before(lastCall.result, g)

C16_Witness ==
    /\ lastCall.op = "pop"
    /\ lastCall.pre = 1..4
    /\ \A g \in 1..3 : scheduler.allFlights[g].priority = 1
    /\ scheduler.allFlights[4].priority = 3
    /\ scheduler.allFlights[4].isEmergency
    /\ lastCall.result = 4
    /\ scheduler.runwayQueue["RWY_A"] = 1..3


(***************************************************************************)
(* The processes of source.cpp under a scheduler that lets each of them    *)
(* run: the simulation loop ticks every second, the AVN generator and      *)
(* StripePay block in read() and run when a message is there.  What the    *)
(* operator and the airline type at a menu is up to them.                  *)
(***************************************************************************)
\* The run with a single flight, an arrival.
InitBridge ==
    /\ OutsideBilling
    /\ \E arrival \in BillingAirlines :
          billing = BillingOf(<<ArrivalOf(arrival)>>)

SpecBillingFair ==
    /\ InitBridge
    /\ [][NextBilling]_vars
    /\ WF_vars(billingUpdateFlights)
    /\ WF_vars(avnGeneratorRun)
    /\ WF_vars(stripePayRun)

(***************************************************************************)
(* C17: when an AVN with id N has been emitted and StripePay has replied   *)
(* PAYMENT_CONFIRMATION for id N, the scheduler's AVN N eventually becomes *)
(* Paid and stays Paid, so that the listing of unpaid AVNs omits it.  A    *)
(* reply is never taken back and a Paid AVN never becomes Unpaid again, so *)
(* this says that from some time on every confirmed AVN is Paid.           *)
(***************************************************************************)
C17_Confirmed(n) == n \in IssuedIds /\ n \in billing.replied

C17_Paid(n) ==
    \E i \in DOMAIN billing.allAVNs :
        billing.allAVNs[i].id = n /\ billing.allAVNs[i].status = "PAID"

C17_ConfirmedBecomesPaid ==
    <>[](\A n \in IssuedIds : C17_Confirmed(n) => C17_Paid(n))


(***************************************************************************)
(* C18: a flight holds no runway once its aircraft has entered TAXI_IN     *)
(* (arrivals) or CLIMB (departures): the plan step that moves the aircraft *)
(* into that phase leaves the flight without a runway, and the runway the  *)
(* flight held is Available with no occupant.  The steps looked at are     *)
(* those of a flight whose aircraft is in the phase its plan has brought   *)
(* it to.                                                                  *)
(***************************************************************************)
C18_PhaseAfterSteps(arrival) ==
    IF arrival
    THEN <<"HOLDING", "APPROACH", "LANDING", "TAXI_IN", "AT_GATE_ARRIVAL">>
    ELSE <<"AT_GATE_DEPARTURE", "TAXI_OUT", "TAKEOFF_ROLL", "CLIMB", "CRUISE">>

C18_OnPlan(f) ==
    /\ flights[f].currentPlanStep < 4
    /\ aircraft[flights[f].aircraft].currentPhase =
           C18_PhaseAfterSteps(isArrivalDirection(
               aircraft[flights[f].aircraft].direction))[flights[f].currentPlanStep + 1]

C18_StepInto(f, phases) ==
    /\ C18_OnPlan(f)
    /\ flights'[f].currentPlanStep = flights[f].currentPlanStep + 1
    /\ aircraft[flights[f].aircraft].currentPhase \notin phases
    /\ aircraft'[flights[f].aircraft].currentPhase \in phases

C18_Released(f) ==
    /\ flights'[f].assignedRunway = Null
    /\ flights[f].assignedRunway # Null
           => /\ runways'[flights[f].assignedRunway].status = "AVAILABLE"
              /\ runways'[flights[f].assignedRunway].assignedAircraft = nullptr

C18_ReleasedOnEntry ==
    [][\A f \in FlightIds :
           C18_StepInto(f, {"TAXI_IN", "CLIMB"}) => C18_Released(f)]_vars


(***************************************************************************)
(* Airline::scheduleFlightIfNeeded on its own: the flight generation       *)
(* thread calls it on an airline for any direction while the clock         *)
(* advances.  scheduleLog keeps the calls that returned true.              *)
(***************************************************************************)
MaxAirlineTime == 4800

MaxAirlineAircraft == 3

AirlineTickStep == 600

ScheduledAirlines == {4}

\* The generation thread is inside no call: the last call has returned.
AirlineIdle == IF lastCall.op = "none" THEN TRUE ELSE lastCall.returned

scheduleFlightIfNeededCall(i, direction, returned, result) ==
    [op |-> "scheduleFlightIfNeeded", airline |-> i, direction |-> direction,
     currentTime |-> simTime, pre |-> airlines[i], log |-> scheduleLog,
     returned |-> returned, result |-> result]

\* Airline::scheduleFlightIfNeeded(currentTime, direction).  It holds
\* m_mutex by a lock_guard when it calls createAircraft, whose first
\* statement locks m_mutex again: where that blocks the call never returns.
scheduleFlightIfNeeded(i, direction) ==
    /\ AirlineIdle
    /\ IF ~scheduleFlightIfNeededAccepts(i, simTime, direction)
       THEN /\ lastCall' = scheduleFlightIfNeededCall(i, direction, TRUE, FALSE)
            /\ UNCHANGED <<aircraft, airlines, scheduleLog>>
       ELSE IF relock = "blocks"
       THEN /\ lastCall' = scheduleFlightIfNeededCall(i, direction, FALSE, FALSE)
            /\ UNCHANGED <<aircraft, airlines, scheduleLog>>
       ELSE /\ Len(aircraft) < MaxAirlineAircraft
            /\ \E isEmergency \in BOOLEAN :
               \E ac \in createAircraft(i, direction, isEmergency) :
                  aircraft' = Append(aircraft, ac)
            /\ airlines' = [airlines EXCEPT
                               ![i].fleet = @ \cup {Len(aircraft) + 1},
                               ![i].activeFlights = @ + 1,
                               ![i].lastFlightScheduleTime = simTime]
            /\ scheduleLog' = scheduleLog \cup
                   {[airline |-> i, direction |-> direction, time |-> simTime]}
            /\ lastCall' = scheduleFlightIfNeededCall(i, direction, TRUE, TRUE)
    /\ UNCHANGED <<runways, steadyNow, subject, granted, concVars, flights,
                   simTime, relock, noise, schedVars, controller, worker,
                   overload, monitor, billing, locking>>

\* m_currentTime between two rounds of flightGenerationLoop
airlineClock ==
    /\ simTime + AirlineTickStep <= MaxAirlineTime
    /\ simTime' = simTime + AirlineTickStep
    /\ UNCHANGED <<runwayVars, concVars, flights, relock, noise, schedVars,
                   ctlVars, serviceVars>>

InitAirline ==
    /\ steadyNow = 0
    /\ runways = [r \in RunwayId |-> NewRunway]
    /\ aircraft = <<>>
    /\ subject = "RWY_A"
    /\ lastCall = NoCall
    /\ granted = [r \in RunwayId |-> NoGrant]
    /\ runwayMutex = [r \in RunwayId |-> "free"]
    /\ task = [t \in Tasks |-> IdleTask]
    /\ flights = <<>>
    /\ simTime = 0
    /\ relock \in {"blocks", "proceeds"}
    /\ noise = {0}
    /\ NoScheduler
    /\ NoController
    /\ NoServices

NextAirline ==
    \/ \E i \in ScheduledAirlines, direction \in FlightDirection :
           scheduleFlightIfNeeded(i, direction)
    \/ airlineClock

SpecAirline == InitAirline /\ [][NextAirline]_vars

(***************************************************************************)
(* C19: a call of scheduleFlightIfNeeded(now, d) that returns has created  *)
(* a flight if and only if now minus the time the airline last scheduled   *)
(* a flight for direction d (0 when it never did) is at least the interval *)
(* of d, and the airline has fewer aircraft than its capacity.             *)
(***************************************************************************)
C19_LastScheduled(log, i, direction) ==
    LET times == {e.time : e \in {x \in log : /\ x.airline = i
                                              /\ x.direction = direction}}
    IN  IF times = {} THEN 0 ELSE CHOOSE t \in times : \A u \in times : u <= t

C19_Due(call) ==
    /\ call.currentTime - C19_LastScheduled(call.log, call.airline, call.direction)
           >= FLIGHT_GENERATION_INTERVAL[call.direction]
    /\ Cardinality(call.pre.fleet) < AIRLINES[call.airline].aircrafts

C19_CreatesIffDue ==
    (lastCall.op = "scheduleFlightIfNeeded" /\ lastCall.returned)
        => (lastCall.result <=> C19_Due(lastCall))


(***************************************************************************)
(* The life of the worker threads.  Each loop is                           *)
(*   while (m_isRunning && !m_isCompleted) {                               *)
(*       if (m_isPaused) { wait on m_pauseCondition; break or continue }   *)
(*       body; sleep }                                                     *)
(* The bodies of pause(), resume() and stop() are not part of the sources: *)
(* pause sets m_isPaused, resume clears it and wakes the waiting threads,  *)
(* stop clears m_isRunning, wakes the waiting threads and joins the four   *)
(* threads.  A wake-up is never lost.  The controller is constructed with  *)
(* a duration of LifeDuration.                                             *)
(***************************************************************************)
LifeDuration == 150

MaxPauses == 2

Workers == Threads \ {"main"}

\* start() has created the threads.
Started == worker["main"].pc \in {"started", "stopping", "stopped"}

\* if (m_isPaused) { std::unique_lock<std::mutex> lock(m_mutex);
\* m_pauseCondition.wait(lock, ...): the thread sleeps with m_mutex released.
pauseWait(t) ==
    /\ Started
    /\ controller.turn = "none"
    /\ controller.isRunning
    /\ ~controller.isCompleted
    /\ controller.isPaused
    /\ worker[t].pc = "idle"
    /\ worker' = [worker EXCEPT ![t].pc = "waiting"]
    /\ UNCHANGED <<runways, aircraft, flights, simTime, airlines, controller,
                   ctlFrame>>

\* wait returns with m_mutex held once !m_isPaused || !m_isRunning; then
\* if (!m_isRunning) break; else continue.
pauseWake(t) ==
    /\ worker[t].pc = "waiting"
    /\ controller.turn = "none"
    /\ ~controller.isPaused \/ ~controller.isRunning
    /\ worker' = [worker EXCEPT
                     ![t].pc = IF controller.isRunning THEN "idle" ELSE "exited"]
    /\ UNCHANGED <<runways, aircraft, flights, simTime, airlines, controller,
                   ctlFrame>>

\* The loop condition m_isRunning && !m_isCompleted is false.
leaveLoop(t) ==
    /\ Started
    /\ worker[t].pc = "idle"
    /\ ~controller.isRunning \/ controller.isCompleted
    /\ worker' = [worker EXCEPT ![t].pc = "exited"]
    /\ UNCHANGED <<runways, aircraft, flights, simTime, airlines, controller,
                   ctlFrame>>

\* SimulationController::pause; the main thread's cycles count its calls.
pause ==
    /\ worker["main"].pc = "started"
    /\ worker["main"].cycles < MaxPauses
    /\ controller.isRunning
    /\ ~controller.isPaused
    /\ controller' = [controller EXCEPT !.isPaused = TRUE]
    /\ worker' = [worker EXCEPT !["main"].cycles = @ + 1]
    /\ UNCHANGED <<runways, aircraft, flights, simTime, airlines, ctlFrame>>

\* SimulationController::resume
resume ==
    /\ worker["main"].pc = "started"
    /\ controller.isPaused
    /\ controller' = [controller EXCEPT !.isPaused = FALSE]
    /\ UNCHANGED <<runways, aircraft, flights, simTime, airlines, worker,
                   ctlFrame>>

\* SimulationController::stop, up to its joins
stop ==
    /\ worker["main"].pc = "started"
    /\ controller.isRunning
    /\ controller' = [controller EXCEPT !.isRunning = FALSE]
    /\ worker' = [worker EXCEPT !["main"].pc = "stopping"]
    /\ UNCHANGED <<runways, aircraft, flights, simTime, airlines, ctlFrame>>

\* The joins of stop() return.
joinWorkers ==
    /\ worker["main"].pc = "stopping"
    /\ \A t \in Workers : worker[t].pc = "exited"
    /\ worker' = [worker EXCEPT !["main"].pc = "stopped"]
    /\ UNCHANGED <<runways, aircraft, flights, simTime, airlines, controller,
                   ctlFrame>>

\* The steps of each thread.
SimulationThread ==
    \/ updateAllAircraft
    \/ flightUpdateLoop
    \/ activateScheduled
    \/ advanceTime
    \/ pauseWait("simulation")
    \/ pauseWake("simulation")
    \/ leaveLoop("simulation")

GeneratorThread ==
    \/ flightGenerationLoop
    \/ scheduleNewFlights
    \/ ensureCargoFlightPresent("generator")
    \/ createCargoFlight("generator")
    \/ assignCargoFlight("generator")
    \/ pauseWait("generator")
    \/ pauseWake("generator")
    \/ leaveLoop("generator")

MonitoringThread ==
    \/ monitoringLoop
    \/ ensureCargoFlightPresent("monitoring")
    \/ createCargoFlight("monitoring")
    \/ assignCargoFlight("monitoring")
    \/ pauseWait("monitoring")
    \/ pauseWake("monitoring")
    \/ leaveLoop("monitoring")

DeniedThread ==
    \/ deniedFlightLoop
    \/ processDeniedFlights
    \/ pauseWait("denied")
    \/ pauseWake("denied")
    \/ leaveLoop("denied")

MainThread ==
    \/ initialize
    \/ ensureCargoFlightPresent("main")
    \/ createCargoFlight("main")
    \/ assignCargoFlight("main")
    \/ start
    \/ pause
    \/ resume
    \/ stop
    \/ joinWorkers

InitLife ==
    /\ steadyNow = 0
    /\ runways = [r \in RunwayId |-> NewRunway]
    /\ aircraft = <<>>
    /\ subject = "RWY_A"
    /\ lastCall = NoCall
    /\ granted = [r \in RunwayId |-> NoGrant]
    /\ runwayMutex = [r \in RunwayId |-> "free"]
    /\ task = [t \in Tasks |-> IdleTask]
    /\ simTime = 0
    /\ relock \in {"blocks", "proceeds"}
    /\ noise = {0}
    /\ flights = <<>>
    /\ NoScheduler
    /\ NoServices
    /\ airlines = [i \in DOMAIN AIRLINES |-> NewAirline(i)]
    /\ controller = [NewController EXCEPT !.simulationDuration = LifeDuration]
    /\ worker = [t \in Threads |->
                    NewWorker(IF t = "main" THEN "constructed" ELSE "idle")]
    /\ overload = "type"

NextLife ==
    \/ MainThread
    \/ SimulationThread
    \/ GeneratorThread
    \/ MonitoringThread
    \/ DeniedThread

SpecLife == InitLife /\ [][NextLife]_vars

\* The scheduler runs every thread that can take a step; nothing makes the
\* caller of pause, resume and stop call them.
SpecLifeFair ==
    /\ SpecLife
    /\ WF_vars(SimulationThread)
    /\ WF_vars(GeneratorThread)
    /\ WF_vars(MonitoringThread)
    /\ WF_vars(DeniedThread)
    /\ WF_vars(joinWorkers)

(***************************************************************************)
(* C20: once the clock has reached the configured duration the controller  *)
(* is marked completed and every worker thread has eventually left its     *)
(* loop, and once stop has been called every worker thread has eventually  *)
(* left its loop, whatever calls of pause and resume come in between.      *)
(***************************************************************************)
C20_ClockDone == Started /\ simTime >= controller.simulationDuration

C20_Stopped == worker["main"].pc \in {"stopping", "stopped"}

C20_AllLeft == \A t \in Workers : worker[t].pc = "exited"

C20_WorkersLeave ==
    /\ C20_ClockDone ~> (controller.isCompleted /\ C20_AllLeft)
    /\ C20_Stopped ~> C20_AllLeft


(***************************************************************************)
(* C21: while the controller is paused and running, a worker thread that   *)
(* is at its loop test or waiting on the pause condition begins no loop    *)
(* body; when all four are there, the clock, the flights, the aircraft,    *)
(* the runways, the fleets, the denied queue and the cargo counter stay as *)
(* they are; and the clock moves only as the last step of a loop body the  *)
(* simulation thread was already in.  So between a pause and the next      *)
(* resume the clock advances by at most one tick.                          *)
(***************************************************************************)
C21_Quiet(t) == worker[t].pc \in {"idle", "waiting", "exited"}

C21_Step ==
    (Started /\ controller.isPaused /\ controller.isRunning) =>
        /\ \A t \in Workers : C21_Quiet(t) => C21_Quiet(t)'
        /\ (\A t \in Workers : C21_Quiet(t)) =>
               /\ UNCHANGED <<simTime, flights, aircraft, runways, airlines>>
               /\ controller'.deniedFlights = controller.deniedFlights
               /\ controller'.activeCargoFlights = controller.activeCargoFlights
        /\ simTime' # simTime =>
               /\ worker["simulation"].pc = "tick"
               /\ C21_Quiet("simulation")'

C21_PausedWorkersBlock == [][C21_Step]_vars

\* All four workers wait on the pause condition.
C21_Witness ==
    /\ controller.isPaused
    /\ controller.isRunning
    /\ \A t \in Workers : worker[t].pc = "waiting"

\* C21 as stated: the clock does not advance while paused.
C21_ClockStillWhilePaused ==
    [][controller.isPaused => simTime' = simTime]_vars


(***************************************************************************)
(* The lock layer: which mutex every operation takes and which operations  *)
(* it calls while its std::lock_guard is alive.  One mutex stands for the  *)
(* m_mutex of the one object of its class on a call chain: a flight calls  *)
(* its own aircraft and its own runway, an airline calls itself, and the   *)
(* controller is a single object.  A body is the sequence of its           *)
(* lock_guard, its unconditional calls, its conditional calls and the      *)
(* points where the code may return early.                                 *)
(***************************************************************************)
Mutexes == {"Controller", "Runway", "Flight", "Aircraft", "SpeedMonitor", "Airline"}

Guard(m) == [kind |-> "lock", arg |-> m]

Always(op) == [kind |-> "call", arg |-> op]

Maybe(op) == [kind |-> "opt", arg |-> op]

EarlyReturn == [kind |-> "exit", arg |-> "none"]

\* Every public method of Aircraft takes the aircraft's mutex and calls
\* nothing that locks.
AircraftCalls(op) == <<Guard("Aircraft")>>

RunwayCalls(op) ==
    IF op = "Runway::assignAircraft"
    THEN <<Guard("Runway"), EarlyReturn,
           Always("Aircraft::getDirection"), EarlyReturn,
           Always("Aircraft::getType"), EarlyReturn,
           Always("Aircraft::assignRunway")>>
    ELSE <<Guard("Runway")>>

FlightCalls(op) ==
    CASE op = "Flight::assignRunway" ->
             <<Guard("Flight"), EarlyReturn,
               Always("Aircraft::getDirection"), EarlyReturn,
               Always("Aircraft::getType"), EarlyReturn,
               Always("Runway::assignAircraft")>>
      [] op = "Flight::releaseRunway" ->
             <<Guard("Flight"), EarlyReturn, Always("Runway::releaseAircraft")>>
      [] op = "Flight::complete" ->
             <<Guard("Flight"), EarlyReturn, Maybe("Runway::releaseAircraft")>>
      [] op = "Flight::handleGroundFault" ->
             <<Guard("Flight"), EarlyReturn, Always("Aircraft::hasGroundFault"),
               EarlyReturn, Maybe("Runway::releaseAircraft")>>
      [] op = "Flight::update" ->
             <<Guard("Flight"), EarlyReturn,
               Always("Aircraft::update"), Always("Aircraft::hasGroundFault"),
               Maybe("Flight::handleGroundFault"), EarlyReturn,
               Always("Flight::isReadyForNextPhase"), EarlyReturn,
               Always("Flight::executeFlightPlanStep")>>
      [] op = "Flight::executeFlightPlanStep" ->
             <<Guard("Flight"), EarlyReturn,
               Maybe("Flight::releaseRunway"),
               Maybe("Aircraft::transitionToNextPhase"),
               Maybe("Flight::complete")>>
      [] OTHER -> <<Guard("Flight")>>

SpeedMonitorCalls(op) ==
    IF op = "SpeedMonitor::monitorAircraftSpeed"
    THEN <<Guard("SpeedMonitor"), EarlyReturn,
           Always("Aircraft::getCurrentPhase"), Always("Aircraft::getCurrentSpeed"),
           Always("Aircraft::getId"), EarlyReturn,
           Always("Aircraft::getAirline"), Maybe("Airline::getName"),
           Always("Aircraft::issueAVN")>>
    ELSE <<Maybe("SpeedMonitor::monitorAircraftSpeed")>>

AirlineCalls(op) ==
    CASE op = "Airline::scheduleFlightIfNeeded" ->
             <<Guard("Airline"), EarlyReturn, Always("Airline::createAircraft")>>
      [] op = "Airline::updateAllAircraft" ->
             <<Guard("Airline"), Maybe("Aircraft::update")>>
      [] OTHER -> <<Guard("Airline")>>

ControllerCalls(op) ==
    CASE op = "SimulationController::countActiveCargoFlights" ->
             <<Guard("Controller"), Maybe("Flight::getAircraft"),
               Maybe("Aircraft::getType"), Maybe("Flight::getStatus")>>
      [] op = "SimulationController::createCargoFlight" ->
             <<Guard("Controller"), Maybe("Airline::createAircraft"),
               Maybe("Aircraft::getType")>>
      [] op = "SimulationController::assignRunwayToCargo" ->
             <<Always("Flight::getAircraft"), EarlyReturn,
               Always("Aircraft::getType"), EarlyReturn,
               Maybe("Runway::isAvailable"), Maybe("Flight::assignRunway"),
               EarlyReturn,
               Always("SimulationController::addDeniedFlightForRescheduling")>>
      [] op = "SimulationController::addDeniedFlightForRescheduling" ->
             <<Guard("Controller"), Maybe("Flight::getId")>>
      [] op = "SimulationController::processDeniedFlights" ->
             <<Guard("Controller"), EarlyReturn,
               Always("Flight::getStatus"), Always("Flight::getAssignedRunway"),
               Maybe("SimulationController::assignRunwayToCargo"),
               Maybe("SimulationController::assignRunwayToFlight"),
               Maybe("Flight::activate")>>
      [] op = "SimulationController::ensureCargoFlightPresent" ->
             <<Always("SimulationController::countActiveCargoFlights"), EarlyReturn,
               Always("SimulationController::createCargoFlight"), EarlyReturn,
               Always("SimulationController::assignRunwayToCargo"),
               Maybe("Flight::activate")>>
      [] op = "SimulationController::updateSimulation" ->
             <<Guard("Controller"),
               Maybe("Airline::updateAllAircraft"),
               Maybe("Flight::update"), Maybe("Runway::update"),
               Maybe("SpeedMonitor::update"),
               Maybe("SimulationController::assignRunwayToFlight"),
               Maybe("Flight::activate")>>
      [] op = "SimulationController::initialize" ->
             <<Guard("Controller"), EarlyReturn,
               Always("SimulationController::ensureCargoFlightPresent")>>
      [] op = "SimulationController::assignRunwayToFlight" ->
             <<Always("Flight::getAircraft"), EarlyReturn,
               Always("Aircraft::getDirection"), Always("Aircraft::getType"),
               Always("Flight::isEmergency"),
               Maybe("SimulationController::assignRunwayToCargo"), EarlyReturn,
               Maybe("Runway::isAvailable"), Maybe("Flight::assignRunway"),
               EarlyReturn,
               Always("SimulationController::addDeniedFlightForRescheduling")>>
      [] OTHER -> <<Guard("Controller")>>

\* The class an operation belongs to is the part of its name before "::".
ControllerOps ==
    {"SimulationController::countActiveCargoFlights",
     "SimulationController::createCargoFlight",
     "SimulationController::assignRunwayToCargo",
     "SimulationController::addDeniedFlightForRescheduling",
     "SimulationController::processDeniedFlights",
     "SimulationController::ensureCargoFlightPresent",
     "SimulationController::updateSimulation",
     "SimulationController::initialize",
     "SimulationController::assignRunwayToFlight"}

FlightOps ==
    {"Flight::setEmergency", "Flight::assignRunway", "Flight::releaseRunway",
     "Flight::complete", "Flight::handleGroundFault", "Flight::update",
     "Flight::executeFlightPlanStep",
     "Flight::isReadyForNextPhase", "Flight::getAircraft", "Flight::getStatus",
     "Flight::getId", "Flight::isEmergency", "Flight::getAssignedRunway",
     "Flight::activate"}

RunwayOps ==
    {"Runway::assignAircraft", "Runway::releaseAircraft", "Runway::isAvailable",
     "Runway::update"}

SpeedMonitorOps == {"SpeedMonitor::monitorAircraftSpeed", "SpeedMonitor::update"}

AirlineOps ==
    {"Airline::scheduleFlightIfNeeded", "Airline::createAircraft",
     "Airline::updateAllAircraft", "Airline::getName"}

Body(op) ==
    CASE op \in ControllerOps -> ControllerCalls(op)
      [] op \in FlightOps -> FlightCalls(op)
      [] op \in RunwayOps -> RunwayCalls(op)
      [] op \in SpeedMonitorOps -> SpeedMonitorCalls(op)
      [] op \in AirlineOps -> AirlineCalls(op)
      [] OTHER -> AircraftCalls(op)

\* The operations the worker threads and the menu call with no lock held.
EntryPoints ==
    {"SimulationController::initialize", "SimulationController::updateSimulation",
     "SimulationController::processDeniedFlights",
     "Airline::scheduleFlightIfNeeded", "SpeedMonitor::monitorAircraftSpeed",
     "Flight::update", "Flight::setEmergency", "Flight::assignRunway",
     "Flight::releaseRunway"}

Frame(op) == [op |-> op, pc |-> 1, took |-> 0]

InCall == locking.stack # <<>> /\ ~locking.blocked

Top == locking.stack[Len(locking.stack)]

AtItem == InCall /\ Top.pc <= Len(Body(Top.op))

Item == Body(Top.op)[Top.pc]

Holds(m) == \E k \in 1..Len(locking.held) : locking.held[k] = m

Advance(frame) == [frame EXCEPT !.pc = @ + 1]

WithTop(frame) == [locking.stack EXCEPT ![Len(locking.stack)] = frame]

lockFrame == <<runwayVars, concVars, flightVars, schedVars, ctlVars,
               monitor, billing, scheduleLog>>

\* A thread that holds nothing calls an operation.
enterCall(op) ==
    /\ locking.stack = <<>>
    /\ ~locking.blocked
    /\ locking' = [locking EXCEPT !.stack = <<Frame(op)>>]
    /\ UNCHANGED lockFrame

\* std::lock_guard<std::mutex> lock(m_mutex): locking a std::mutex the thread
\* already owns is undefined; the build either blocks there for ever or goes on.
acquire ==
    /\ AtItem
    /\ Item.kind = "lock"
    /\ LET m == Item.arg
           now == [lock |-> m, before |-> locking.held]
       IN  IF Holds(m) /\ relock = "blocks"
           THEN locking' = [locking EXCEPT !.blocked = TRUE, !.last = now]
           ELSE locking' = [locking EXCEPT
                                !.stack = WithTop([Advance(Top) EXCEPT !.took = 1]),
                                !.held = Append(@, m),
                                !.last = now]
    /\ UNCHANGED lockFrame

\* A call made inside the body: the callee runs on the same thread.
invoke ==
    /\ AtItem
    /\ Item.kind \in {"call", "opt"}
    /\ locking' = [locking EXCEPT
                       !.stack = Append(WithTop(Advance(Top)), Frame(Item.arg))]
    /\ UNCHANGED lockFrame

\* A conditional call that is not made, or an early return that is not taken.
skip ==
    /\ AtItem
    /\ Item.kind \in {"opt", "exit"}
    /\ locking' = [locking EXCEPT !.stack = WithTop(Advance(Top))]
    /\ UNCHANGED lockFrame

\* The operation returns, and its lock_guard releases the mutex.
leave ==
    /\ InCall
    /\ AtItem => Item.kind = "exit"
    /\ locking' = [locking EXCEPT
                       !.stack = SubSeq(@, 1, Len(@) - 1),
                       !.held = SubSeq(@, 1, Len(@) - Top.took)]
    /\ UNCHANGED lockFrame

InitLocks ==
    /\ steadyNow = 0
    /\ runways = [r \in RunwayId |-> NewRunway]
    /\ aircraft = <<>>
    /\ subject = "RWY_A"
    /\ lastCall = NoCall
    /\ granted = [r \in RunwayId |-> NoGrant]
    /\ runwayMutex = [r \in RunwayId |-> "free"]
    /\ task = [t \in Tasks |-> IdleTask]
    /\ flights = <<>>
    /\ simTime = 0
    /\ relock \in {"blocks", "proceeds"}
    /\ noise = {0}
    /\ NoScheduler
    /\ NoController
    /\ NoServices

NextLocks ==
    \/ \E op \in EntryPoints : enterCall(op)
    \/ acquire
    \/ invoke
    \/ skip
    \/ leave

SpecLocks == InitLocks /\ [][NextLocks]_vars

\* Controller-global, then Runway, then Flight, then Aircraft, then SpeedMonitor.
Rank(m) ==
    CASE m = "Controller" -> 1
      [] m = "Runway" -> 2
      [] m = "Flight" -> 3
      [] m = "Aircraft" -> 4
      [] m = "SpeedMonitor" -> 5
      [] OTHER -> 0

Ranked(m) == Rank(m) > 0

HeldBefore(m) == \E k \in 1..Len(locking.last.before) : locking.last.before[k] = m

(***************************************************************************)
(* C22: every acquisition of an entity lock is made while the thread holds *)
(* only entity locks that come earlier in the order Controller, Runway,    *)
(* Flight, Aircraft, SpeedMonitor; in particular the runway's lock is      *)
(* never taken (the calls of Flight into Runway) while the flight's lock   *)
(* is held.                                                                *)
(***************************************************************************)
C22_LockOrder ==
    Ranked(locking.last.lock) =>
        /\ \A m \in Mutexes :
               (Ranked(m) /\ m # locking.last.lock /\ HeldBefore(m)) =>
                   Rank(m) < Rank(locking.last.lock)
        /\ locking.last.lock = "Runway" => ~HeldBefore("Flight")


(***************************************************************************)
(* C26: no thread acquires a mutex it already holds, and so no operation   *)
(* (Flight::update, Airline::scheduleFlightIfNeeded, the controller's      *)
(* initialize, updateSimulation and processDeniedFlights) blocks for ever  *)
(* on its own lock.                                                        *)
(***************************************************************************)
C26_NoSelfRelock ==
    /\ ~HeldBefore(locking.last.lock)
    /\ ~locking.blocked


(***************************************************************************)
(* C23: for every airline the count of active aircraft and the number of   *)
(* aircraft in its fleet map are at most its fleet capacity, and a         *)
(* scheduling attempt made at capacity returns failure and leaves the      *)
(* airline as it was.                                                      *)
(***************************************************************************)
C23_AtCapacity(i, airline) ==
    \/ airline.activeFlights >= AIRLINES[i].aircrafts
    \/ Cardinality(airline.fleet) >= AIRLINES[i].aircrafts

C23_WithinCapacity ==
    /\ \A i \in DOMAIN AIRLINES :
           /\ airlines[i].activeFlights <= AIRLINES[i].aircrafts
           /\ Cardinality(airlines[i].fleet) <= AIRLINES[i].aircrafts
    /\ (/\ lastCall.op = "scheduleFlightIfNeeded"
        /\ lastCall.returned
        /\ C23_AtCapacity(lastCall.airline, lastCall.pre)) =>
           /\ ~lastCall.result
           /\ airlines[lastCall.airline] = lastCall.pre


(***************************************************************************)
(* Flight::setEmergency as a recorded call: lastCall keeps the flight      *)
(* before and after the call, so that a call that changes nothing shows.   *)
(***************************************************************************)
setEmergency(f, isEmergency) ==
    /\ Callable(f)
    /\ LET after == FlightSetEmergency(flights[f], isEmergency) IN
       /\ flights' = [flights EXCEPT ![f] = after]
       /\ lastCall' = [op |-> "setEmergency", flight |-> f, arg |-> isEmergency,
                       pre |-> flights[f], post |-> after]
    /\ UNCHANGED <<runways, aircraft, steadyNow, subject, granted, simTime,
                   relock, noise, outsideFlight>>

NextEmergency ==
    \/ \E f \in FlightIds :
          \/ Activate(f)
          \/ \E e \in BOOLEAN : setEmergency(f, e)
          \/ ExecuteFlightPlanStep(f)
    \/ SimTick

SpecEmergency == InitFlight /\ [][NextEmergency]_vars

C24_Arrival(fl) == isArrivalDirection(aircraft[fl.aircraft].direction)

\* The flight as setEmergency(true) leaves a Scheduled or Active flight.
C24_SwitchedToEmergency(fl) ==
    /\ fl.status = "EMERGENCY"
    /\ fl.isEmergency
    /\ fl.flightPlan = createEmergencyFlightPlan(C24_Arrival(fl))

(***************************************************************************)
(* C24: a setEmergency(false) on a flight that setEmergency(true) switched *)
(* to status Emergency with the emergency plan returns the flight to       *)
(* status Active with the regular plan of its direction.                   *)
(***************************************************************************)
C24_RevertsToActive ==
    (/\ lastCall.op = "setEmergency"
     /\ ~lastCall.arg
     /\ C24_SwitchedToEmergency(lastCall.pre)) =>
        /\ lastCall.post.status = "ACTIVE"
        /\ lastCall.post.flightPlan =
               createFlightPlan(FALSE, C24_Arrival(lastCall.pre))


\* The aircraft is on the runway part of its plan: an arrival in LANDING or a
\* departure in TAKEOFF_ROLL.
C25_OnRunwayPhase(a) ==
    \/ isArrivalDirection(aircraft[a].direction) /\ aircraft[a].currentPhase = "LANDING"
    \/ ~isArrivalDirection(aircraft[a].direction)
           /\ aircraft[a].currentPhase = "TAKEOFF_ROLL"

C25_Owns(f, a) ==
    /\ flights[f].aircraft = a
    /\ flights[f].assignedRunway # Null
    /\ runways[flights[f].assignedRunway].assignedAircraft = a

(***************************************************************************)
(* C25: whenever an arriving aircraft is in LANDING or a departing one in  *)
(* TAKEOFF_ROLL, a flight of that aircraft holds a runway and the runway   *)
(* records the aircraft as its occupant.                                   *)
(***************************************************************************)
C25_OwnsRunway ==
    \A a \in DOMAIN aircraft :
        C25_OnRunwayPhase(a) => \E f \in FlightIds : C25_Owns(f, a)

(***************************************************************************)
(* SimulationController::ensureCargoFlightPresent as the file defines it   *)
(* the second time (line 822): with no cargo flight that is not terminal,  *)
(* the first Cargo or Commercial airline that yields a CARGO aircraft gets *)
(* a flight, the flight tries RWY_C and then the other runways, and it is  *)
(* activated whether or not a runway took it.                              *)
(***************************************************************************)
\* The loop over m_airlines from airline k on, with the aircraft acs and the
\* airlines als so far: an aircraft of another type stays in its fleet and
\* the loop goes on.  created is the new CARGO aircraft, or 0.
RECURSIVE cargoAircraftFrom(_, _, _)
cargoAircraftFrom(k, acs, als) ==
    IF k > Len(AIRLINES)
    THEN {[aircraft |-> acs, airlines |-> als, created |-> 0]}
    ELSE IF \/ AIRLINES[k].type \notin {"CARGO", "COMMERCIAL"}
            \/ Cardinality(als[k].fleet) >= AIRLINES[k].aircrafts
    THEN cargoAircraftFrom(k + 1, acs, als)
    ELSE UNION {
        LET acs2 == Append(acs, ac)
            als2 == [als EXCEPT ![k].fleet = @ \cup {Len(acs) + 1},
                                ![k].activeFlights = @ + 1] IN
        IF ac.type = "CARGO"
        THEN {[aircraft |-> acs2, airlines |-> als2, created |-> Len(acs2)]}
        ELSE cargoAircraftFrom(k + 1, acs2, als2)
        : ac \in UNION {IF AIRLINES[k].type = "CARGO"
                        THEN createAircraft(k, direction, FALSE)
                        ELSE createAircraftOfType(k, direction, "CARGO")
                        : direction \in FlightDirection}}

\* The runway the new flight of aircraft ac takes: RWY_C when it is
\* available and accepts the aircraft, or else the first other runway that
\* is available and valid for the direction and for CARGO; Null if none.
cargoRunwayFor(ac) ==
    LET accepts(r) == /\ isAvailable(r)
                      /\ canUseForDirection(r, ac.direction)
                      /\ canUseForAircraftType(r, ac.type)
        others == SelectSeq(m_runways,
                            LAMBDA r : /\ r # "RWY_C"
                                       /\ canUseForAircraftType(r, "CARGO")
                                       /\ accepts(r))
    IN  IF accepts("RWY_C") THEN "RWY_C"
        ELSE IF others = <<>> THEN Null ELSE others[1]

MaxCargoFlights == 4

ensureCargoFlightPresentAgain ==
    /\ controller.isRunning
    /\ ~controller.isCompleted
    /\ IF countActiveCargoFlights >= 1
       THEN UNCHANGED <<aircraft, airlines, flights, runways>>
       ELSE /\ Len(flights) < MaxCargoFlights
            /\ \E o \in cargoAircraftFrom(1, aircraft, airlines) :
                  /\ airlines' = o.airlines
                  /\ IF o.created = 0
                     THEN /\ aircraft' = o.aircraft
                          /\ UNCHANGED <<flights, runways>>
                     ELSE LET a == o.created
                              ac == o.aircraft[a]
                              r == cargoRunwayFor(ac)
                              flight ==
                                  [aircraft |-> a, status |-> "SCHEDULED",
                                   isEmergency |-> FALSE,
                                   scheduledTime |-> simTime,
                                   activationTime |-> 0, statusReason |-> "",
                                   assignedRunway |-> r,
                                   flightPlan |->
                                       createFlightPlan(
                                           FALSE,
                                           isArrivalDirection(ac.direction)),
                                   currentPlanStep |-> 0, mutex |-> "free"] IN
                          /\ aircraft' = [o.aircraft EXCEPT
                                             ![a].assignedRunway = r]
                          /\ runways' = IF r = Null THEN runways
                                        ELSE [runways EXCEPT
                                                 ![r] = AfterAssign(@, a)]
                          /\ flights' =
                                 Append(flights,
                                        FlightActivate(flight, simTime).flight)
    /\ UNCHANGED <<controller, worker, simTime, ctlFrame>>

\* simulationLoop: m_currentTime moves on, and at m_simulationDuration the
\* simulation is completed.
cargoTick ==
    /\ controller.isRunning
    /\ ~controller.isCompleted
    /\ simTime' = simTime + TickStep
    /\ controller' = [controller EXCEPT
                         !.isCompleted =
                             simTime' >= controller.simulationDuration]
    /\ UNCHANGED <<runways, aircraft, flights, airlines, worker, ctlFrame>>

\* A generated arrival from the south of the given type, on runway r since
\* the fourth round of scheduleNewFlights.
HolderAircraft(type, r) ==
    [NewAircraft(type, "SOUTH", SPEED_LIMITS["HOLDING"].min)
        EXCEPT !.assignedRunway = r]

HolderFlight(a, r, now) ==
    [aircraft |-> a, status |-> "ACTIVE", isEmergency |-> FALSE,
     scheduledTime |-> now, activationTime |-> now, statusReason |-> "",
     assignedRunway |-> r, flightPlan |-> createFlightPlan(FALSE, TRUE),
     currentPlanStep |-> 0, mutex |-> "free"]

\* The runways that arrivals hold when the call comes: none, RWY_A, or RWY_A
\* and RWY_C (an aircraft of type EMERGENCY is given RWY_C once RWY_A is
\* taken).
HeldRunways == {<<>>, <<"RWY_A">>, <<"RWY_A", "RWY_C">>}

\* The fleets of that moment: the first airline has the cargo aircraft of
\* initialize and the arrival on RWY_A, the second the arrival on RWY_C.
HolderFleet(i, held) ==
    CASE i = 1 -> 1..(IF Len(held) >= 1 THEN 2 ELSE 1)
      [] i = 2 -> IF Len(held) >= 2 THEN {3} ELSE {}
      [] OTHER -> {}

(***************************************************************************)
(* A controller of a ten-minute simulation at its fourth round of flight   *)
(* generation, in a build where relocking goes through and createAircraft  *)
(* takes the requested type.  The state shows the cargo flight that        *)
(* initialize created, completed since, and the arrivals that hold runways *)
(* at this moment: a commercial one of the first airline on RWY_A, one of  *)
(* type EMERGENCY of the second airline on RWY_C.  Flights that are        *)
(* terminal and the fleets they belong to are left out: neither            *)
(* ensureCargoFlightPresent nor Flight::update reads them.                 *)
(***************************************************************************)
InitCargo ==
    /\ steadyNow = 0
    /\ subject = "RWY_A"
    /\ lastCall = NoCall
    /\ granted = [r \in RunwayId |-> NoGrant]
    /\ runwayMutex = [r \in RunwayId |-> "free"]
    /\ task = [t \in Tasks |-> IdleTask]
    /\ simTime = 4 * FLIGHT_GENERATION_INTERVAL["SOUTH"]
    /\ relock = "proceeds"
    /\ noise = {0}
    /\ overload = "type"
    /\ NoScheduler
    /\ NoServices
    /\ controller = [NewController EXCEPT
                        !.isRunning = TRUE,
                        !.simulationDuration = 2 * SIMULATION_DURATION]
    /\ worker = [t \in Threads |->
                    NewWorker(IF t = "main" THEN "started" ELSE "idle")]
    /\ \E held \in HeldRunways :
          /\ aircraft =
                 <<[NewAircraft("CARGO", "EAST", SPEED_LIMITS["CRUISE"].min)
                       EXCEPT !.currentPhase = "CRUISE"]>>
                 \o [k \in 1..Len(held) |->
                        HolderAircraft(IF held[k] = "RWY_C" THEN "EMERGENCY"
                                       ELSE "COMMERCIAL", held[k])]
          /\ runways =
                 [r \in RunwayId |->
                     IF \E k \in 1..Len(held) : held[k] = r
                     THEN AfterAssign(NewRunway,
                                      1 + CHOOSE k \in 1..Len(held) : held[k] = r)
                     ELSE NewRunway]
          /\ flights =
                 <<[HolderFlight(1, Null, 0) EXCEPT
                       !.status = "COMPLETED",
                       !.flightPlan = createFlightPlan(FALSE, FALSE),
                       !.currentPlanStep = Len(createFlightPlan(FALSE, FALSE))]>>
                 \o [k \in 1..Len(held) |-> HolderFlight(k + 1, held[k], simTime)]
          /\ airlines =
                 [i \in DOMAIN AIRLINES |->
                     [NewAirline(i) EXCEPT
                         !.fleet = HolderFleet(i, held),
                         !.activeFlights =
                             @ + Cardinality(HolderFleet(i, held)),
                         !.lastFlightScheduleTime = simTime]]

NextCargo ==
    \/ ensureCargoFlightPresentAgain
    \/ \E f \in FlightIds : ~controller.isCompleted /\ Update(f)
    \/ cargoTick

SpecCargo == InitCargo /\ [][NextCargo]_vars



\* Flight f, which had no runway, has runway r after the step.
C27_Given(f, r) ==
    /\ f <= Len(flights')
    /\ flights[f].assignedRunway = Null
    /\ flights'[f].assignedRunway = r

C27_Preferred(direction) ==
    IF isArrivalDirection(direction) THEN "RWY_A" ELSE "RWY_B"

(***************************************************************************)
(* C27: a flight of a Cargo or Emergency aircraft that is given a runway   *)
(* while RWY_C is available is placed on RWY_C; placed on another runway,  *)
(* RWY_C was not available and the runway is RWY_A for an arrival and      *)
(* RWY_B for a departure.                                                  *)
(***************************************************************************)
C27_RunwayCFirst ==
    [][\A f \in 1..Len(flights) : \A r \in RunwayId :
          (/\ C27_Given(f, r)
           /\ aircraft[flights[f].aircraft].type \in {"CARGO", "EMERGENCY"}) =>
              IF isAvailable("RWY_C") THEN r = "RWY_C"
              ELSE r = C27_Preferred(aircraft[flights[f].aircraft].direction)]_vars



(***************************************************************************)
(* simulationLoop on the flights of the first round of scheduleNewFlights, *)
(* 120 s into the simulation: the first two airlines, both Commercial,     *)
(* have each created an arrival from the south, of any type, and a flight  *)
(* for it, emergency or not.  The runways are free; the cargo flight of    *)
(* initialize, which gave its runway back at 90 s, is left out.            *)
(***************************************************************************)
InitAssign ==
    /\ steadyNow = 0
    /\ runways = [r \in RunwayId |-> NewRunway]
    /\ subject = "RWY_A"
    /\ lastCall = NoCall
    /\ granted = [r \in RunwayId |-> NoGrant]
    /\ runwayMutex = [r \in RunwayId |-> "free"]
    /\ task = [t \in Tasks |-> IdleTask]
    /\ simTime = FLIGHT_GENERATION_INTERVAL["SOUTH"]
    /\ relock = "proceeds"
    /\ noise = {0}
    /\ overload = "type"
    /\ NoScheduler
    /\ NoServices
    /\ controller = [NewController EXCEPT !.isRunning = TRUE]
    /\ worker = [t \in Threads |->
                    NewWorker(IF t = "main" THEN "started" ELSE "idle")]
    /\ \E ac1 \in createAircraft(1, "SOUTH", FALSE),
          ac2 \in createAircraft(2, "SOUTH", FALSE) :
          aircraft = <<ac1, ac2>>
    /\ \E e1 \in BOOLEAN, e2 \in BOOLEAN :
          flights = <<NewFlight(1, simTime, e1), NewFlight(2, simTime, e2)>>
    /\ airlines = [i \in DOMAIN AIRLINES |->
                      IF i \in {1, 2}
                      THEN [NewAirline(i) EXCEPT
                               !.fleet = {i}, !.activeFlights = @ + 1,
                               !.lastFlightScheduleTime = simTime]
                      ELSE NewAirline(i)]

NextAssign ==
    \/ updateAllAircraft
    \/ flightUpdateLoop
    \/ activateScheduled
    \/ advanceTime

SpecAssign == InitAssign /\ [][NextAssign]_vars


\* The priority class of an aircraft kind.
C28_Class(type) ==
    CASE type = "EMERGENCY" -> 3
      [] type = "CARGO" -> 2
      [] OTHER -> 1

(***************************************************************************)
(* C28: every flight that generateFlights has pushed on a runway queue     *)
(* (each flight of allFlights, in the same block that creates it) carries  *)
(* priority 3 if its aircraft kind is Emergency, 2 if it is Cargo and 1 if *)
(* it is Commercial.                                                       *)
(***************************************************************************)
C28_PriorityOfKind ==
    \A f \in DOMAIN scheduler.allFlights :
        scheduler.allFlights[f].priority = C28_Class(scheduler.allFlights[f].type)



\* The flights that wait for a runway: scheduled, not yet given one.
C29_Waiting ==
    {f \in FlightIds : /\ flights[f].status = "SCHEDULED"
                       /\ flights[f].assignedRunway = Null}

(***************************************************************************)
(* C29: m_deniedFlights never holds the same flight more than once, and    *)
(* its length never exceeds the number of flights that wait for a runway.  *)
(***************************************************************************)
C29_BoundedRetry ==
    /\ \A j, k \in DOMAIN controller.deniedFlights :
           j # k => controller.deniedFlights[j] # controller.deniedFlights[k]
    /\ Len(controller.deniedFlights) <= Cardinality(C29_Waiting)



\* scheduleNewFlights takes a step in which it makes a flight.
C30_Generated ==
    /\ At("generator", "scheduleNewFlights")
    /\ Len(flights') = Len(flights) + 1

(***************************************************************************)
(* C30: the flight that a step of scheduleNewFlights makes is a flight of  *)
(* the aircraft created in that step, and no two flights are flights of    *)
(* the same aircraft.                                                      *)
(***************************************************************************)
C30_OwnsItsAircraft ==
    [][/\ C30_Generated =>
              flights'[Len(flights')].aircraft = Len(aircraft')
       /\ \A f, g \in 1..Len(flights') :
              f # g => flights'[f].aircraft # flights'[g].aircraft]_vars



(***************************************************************************)
(* monitoringLoop with the extent of its locks.  countActiveCargoFlights   *)
(* holds m_mutex only while it counts; the comparison with                 *)
(* m_activeCargoFlights and the assignment that corrects it run with no    *)
(* lock held, so calls of the other threads come between the count and     *)
(* the assignment.  worker["monitoring"].index is actualCargoCount.        *)
(***************************************************************************)
\* int actualCargoCount = countActiveCargoFlights();
monitoringCount ==
    /\ Running("monitoring")
    /\ worker' = [worker EXCEPT !["monitoring"].pc = "reconcile",
                                !["monitoring"].index = countActiveCargoFlights]
    /\ UNCHANGED <<controller, runways, aircraft, flights, simTime, airlines,
                   ctlFrame>>

\* if (actualCargoCount != m_activeCargoFlights)
\*     m_activeCargoFlights = actualCargoCount;
monitoringReconcile ==
    /\ worker["monitoring"].pc = "reconcile"
    /\ controller' = [controller EXCEPT
                         !.activeCargoFlights = worker["monitoring"].index]
    /\ worker' = [worker EXCEPT
                     !["monitoring"].pc =
                         IF worker["monitoring"].index = 0
                         THEN "reconciled" ELSE "idle",
                     !["monitoring"].index = 0]
    /\ UNCHANGED <<runways, aircraft, flights, simTime, airlines, ctlFrame>>

\* if (actualCargoCount == 0) ensureCargoFlightPresent(), which locks m_mutex.
monitoringEnsure ==
    /\ worker["monitoring"].pc = "reconciled"
    /\ controller.turn = "none"
    /\ controller' = [controller EXCEPT !.turn = "monitoring"]
    /\ worker' = [worker EXCEPT !["monitoring"].pc = "ensure"]
    /\ UNCHANGED <<runways, aircraft, flights, simTime, airlines, ctlFrame>>

\* The controller with its simulation thread and its monitoring thread.
NextReconcile ==
    \/ initialize
    \/ start
    \/ \E t \in {"main", "monitoring"} :
          \/ ensureCargoFlightPresent(t)
          \/ createCargoFlight(t)
          \/ assignCargoFlight(t)
    \/ updateAllAircraft
    \/ flightUpdateLoop
    \/ activateScheduled
    \/ advanceTime
    \/ monitoringCount
    \/ monitoringReconcile
    \/ monitoringEnsure

SpecReconcile == InitCtl /\ [][NextReconcile]_vars

(***************************************************************************)
(* C31: right after the reconciliation step of the monitoring thread,      *)
(* m_activeCargoFlights is the number of Cargo flights of m_flights whose  *)
(* status is not terminal, whatever the other threads did meanwhile; and   *)
(* the counter is never negative.                                          *)
(***************************************************************************)
C31_Reconciled ==
    [][/\ monitoringReconcile =>
              controller'.activeCargoFlights = countActiveCargoFlights'
       /\ controller'.activeCargoFlights >= 0]_vars



\* The next plan step of flight f is due at the time of the update.
C32_Due(f) ==
    /\ flights[f].currentPlanStep < Len(flights[f].flightPlan)
    /\ simTime - flights[f].activationTime >=
           flights[f].flightPlan[flights[f].currentPlanStep
                                     + 1].relativeTimeOffset

(***************************************************************************)
(* C32: an update of an Active or Emergency flight whose aircraft shows no *)
(* ground fault runs the next plan step if and only if the time since the  *)
(* activation has reached the step's offset; it runs that one step and no  *)
(* other, and after the last step the flight is Completed.                 *)
(***************************************************************************)
C32_PlanInOrder ==
    [][\A f \in FlightIds :
          (/\ Update(f)
           /\ flights[f].status \in {"ACTIVE", "EMERGENCY"}
           /\ ~aircraft'[flights[f].aircraft].hasGroundFault) =>
              /\ flights'[f].currentPlanStep =
                     flights[f].currentPlanStep + (IF C32_Due(f) THEN 1 ELSE 0)
              /\ (/\ C32_Due(f)
                  /\ flights'[f].currentPlanStep = Len(flights[f].flightPlan))
                     => flights'[f].status = "COMPLETED"]_vars


(***************************************************************************)
(* Airline::createAircraft on its own: a caller hands any airline a        *)
(* direction and the forceEmergency flag, and lastCall keeps the arguments *)
(* and the type of the aircraft returned (Null for nullptr).               *)
(***************************************************************************)
MaxKindAircraft == 2

createAircraftReturn(i, direction, forceEmergency, type) ==
    [op |-> "createAircraft", airline |-> i, direction |-> direction,
     forceEmergency |-> forceEmergency, pre |-> airlines[i], type |-> type]

\* Airline::createAircraft(direction, forceEmergency): nullptr at capacity;
\* otherwise an aircraft of the type determineAircraftType draws joins the
\* fleet and m_activeFlights goes up by one.
CreateAircraft(i, direction, forceEmergency) ==
    /\ IF ~canScheduleFlight(i)
       THEN /\ lastCall' = createAircraftReturn(i, direction, forceEmergency,
                                                Null)
            /\ UNCHANGED <<aircraft, airlines>>
       ELSE /\ Len(aircraft) < MaxKindAircraft
            /\ \E ac \in createAircraft(i, direction, forceEmergency) :
                  /\ aircraft' = Append(aircraft, ac)
                  /\ lastCall' = createAircraftReturn(i, direction,
                                                      forceEmergency, ac.type)
            /\ airlines' = [airlines EXCEPT
                               ![i].fleet = @ \cup {Len(aircraft) + 1},
                               ![i].activeFlights = @ + 1]
    /\ UNCHANGED <<runways, steadyNow, subject, granted, concVars, flightVars,
                   schedVars, controller, worker, overload, serviceVars>>

NextKind ==
    \E i \in DOMAIN AIRLINES, direction \in FlightDirection,
       forceEmergency \in BOOLEAN :
        CreateAircraft(i, direction, forceEmergency)

SpecKind == InitAirline /\ [][NextKind]_vars

\* The last call of createAircraft returned an aircraft.
C33_Created == IF lastCall.op = "createAircraft" THEN lastCall.type # Null ELSE FALSE

(***************************************************************************)
(* C33: createAircraft(direction, forceEmergency) yields kind Emergency    *)
(* when forceEmergency is set; otherwise an airline whose primary kind is  *)
(* Cargo or Emergency yields that kind, and an airline whose primary kind  *)
(* is Commercial yields Commercial or Cargo, never Emergency.              *)
(***************************************************************************)
C33_KindAsStated ==
    C33_Created =>
        IF lastCall.forceEmergency THEN lastCall.type = "EMERGENCY"
        ELSE IF AIRLINES[lastCall.airline].type \in {"CARGO", "EMERGENCY"}
        THEN lastCall.type = AIRLINES[lastCall.airline].type
        ELSE lastCall.type \in {"COMMERCIAL", "CARGO"}

(***************************************************************************)
(* C33 as amended: createAircraft(direction, forceEmergency) yields kind   *)
(* Emergency when forceEmergency is set; otherwise an airline whose        *)
(* primary kind is Cargo or Emergency yields that kind, and an airline     *)
(* whose primary kind is Commercial yields Commercial, Cargo or (by the    *)
(* emergency probability of the direction) Emergency.                      *)
(***************************************************************************)
C33_KindOfAircraft ==
    C33_Created =>
        IF lastCall.forceEmergency THEN lastCall.type = "EMERGENCY"
        ELSE IF AIRLINES[lastCall.airline].type \in {"CARGO", "EMERGENCY"}
        THEN lastCall.type = AIRLINES[lastCall.airline].type
        ELSE lastCall.type \in {"COMMERCIAL", "CARGO", "EMERGENCY"}

\* C33: a commercial airline, not forced, has returned an Emergency
\* aircraft, and the new aircraft is in its fleet.
C33_Witness ==
    /\ C33_Created
    /\ ~lastCall.forceEmergency
    /\ AIRLINES[lastCall.airline].type = "COMMERCIAL"
    /\ lastCall.type = "EMERGENCY"
    /\ Len(aircraft) \in airlines[lastCall.airline].fleet


(***************************************************************************)
(* SpeedMonitor::monitorAircraftSpeed on its own: a caller hands the       *)
(* monitor one aircraft at a time while Aircraft::setSpeed moves its speed *)
(* between two values, long enough for the history to fill.                *)
(***************************************************************************)
MaxSamples == 11

SampledSpeeds == {400, 650}

\* monitorAircraftSpeed(aircraft, currentTime), called with the next time,
\* while the time is below limit.
monitorBefore(a, limit) ==
    /\ monitor.currentTime < limit
    /\ monitor' = [monitorAircraftSpeed(monitor, a, monitor.currentTime + 1)
                      EXCEPT !.currentTime = @ + 1]
    /\ UNCHANGED <<aircraft, monitorFrame>>

monitorAircraft(a) == monitorBefore(a, MaxSamples)

NextRapid ==
    \/ \E a \in DOMAIN aircraft : monitorAircraft(a)
    \/ \E a \in DOMAIN aircraft, v \in SampledSpeeds : setSpeed(a, v)

SpecRapid == InitMonitor /\ [][NextRapid]_vars

\* The history a call on aircraft a retains: the last 10 samples at most,
\* the current speed included.
C34_Retained(a) ==
    LET h == Append(monitor.speedHistory[a], aircraft[a].currentSpeed)
    IN  SubSeq(h, IF Len(h) > 10 THEN Len(h) - 9 ELSE 1, Len(h))

RECURSIVE C34_Differences(_)
C34_Differences(h) ==
    IF Len(h) < 2 THEN 0
    ELSE (IF h[1] > h[2] THEN h[1] - h[2] ELSE h[2] - h[1])
             + C34_Differences(Tail(h))

\* The mean absolute difference between consecutive samples of h is above
\* 50 km/h.
C34_MeanAbove50(h) ==
    /\ Len(h) >= 2
    /\ C34_Differences(h) > 50 * (Len(h) - 1)

C34_OutOfBounds(a) ==
    \/ aircraft[a].currentSpeed < SPEED_LIMITS[aircraft[a].currentPhase].min
    \/ aircraft[a].currentSpeed > SPEED_LIMITS[aircraft[a].currentPhase].max

C34_Recorded ==
    /\ Len(monitor'.violations) = Len(monitor.violations) + 1
    /\ SubSeq(monitor'.violations, 1, Len(monitor.violations))
           = monitor.violations

(***************************************************************************)
(* C34: monitor(aircraft, now) records a violation exactly when the        *)
(* current speed is outside [min,max] of the aircraft's current phase or   *)
(* the mean absolute difference between consecutive samples of the         *)
(* retained history (the last 10 samples at most, the one just appended    *)
(* included) exceeds 50 km/h, and in no other case.                        *)
(***************************************************************************)
C34_ViolationIffAsStated ==
    [][\A a \in DOMAIN aircraft :
           monitorAircraft(a) =>
               IF C34_OutOfBounds(a) \/ C34_MeanAbove50(C34_Retained(a))
               THEN C34_Recorded
               ELSE monitor'.violations = monitor.violations]_vars

(***************************************************************************)
(* C34 as amended: monitor(aircraft, now) records a violation exactly when *)
(* the current speed is outside [min,max] of the aircraft's current phase  *)
(* or the retained history (the last 10 samples at most, the one just      *)
(* appended included) holds at least 3 samples and the mean absolute       *)
(* difference between its consecutive samples exceeds 50 km/h.             *)
(***************************************************************************)
C34_ViolationIff ==
    [][\A a \in DOMAIN aircraft :
           monitorAircraft(a) =>
               IF \/ C34_OutOfBounds(a)
                  \/ /\ Len(C34_Retained(a)) >= 3
                     /\ C34_MeanAbove50(C34_Retained(a))
               THEN C34_Recorded
               ELSE monitor'.violations = monitor.violations]_vars

\* C34: the monitor has just recorded a violation for a speed inside the
\* limits of the phase, on a history that has filled and dropped a sample.
C34_Witness ==
    /\ monitor.currentTime > MAX_HISTORY
    /\ Len(monitor.speedHistory[1]) = MAX_HISTORY
    /\ monitor.violations # <<>>
    /\ LET v == monitor.violations[Len(monitor.violations)]
       IN  /\ v.timestamp = monitor.currentTime
           /\ v.actualSpeed >= v.minAllowedSpeed
           /\ v.actualSpeed <= v.maxAllowedSpeed


(***************************************************************************)
(* The read loops of source.cpp on byte streams.  A pipe is the sequence   *)
(* of the fields written into it and not yet read; a record is the fields  *)
(* type, avnId and amount of one IPCMessage, written by one write.         *)
(* read(readPipe, &message, sizeof(message)) moves what the pipe holds, up *)
(* to one record, over a default-constructed message and returns the count *)
(* moved, which POSIX lets be less than the count asked for; it returns 0  *)
(* when the pipe is empty and no process holds its write end.              *)
(***************************************************************************)
RecordFields == 3

MaxPiped == 2

PipeReaders == {"AVNGenerator", "StripePay"}

PipedIds == {1000, 1001}

PipedAmounts == {650}

\* IPCMessage::IPCMessage
DefaultMessage == <<"AVN_CREATED", 0, 0>>

\* main: the pipes are empty, the parent holds the write end of atcToAvn
\* and the airline's side that of airlineToStripe, and both children run.
NewPipes ==
    [stream |-> [p \in PipeReaders |-> <<>>],
     writerOpen |-> [p \in PipeReaders |-> TRUE],
     written |-> [p \in PipeReaders |-> 0],
     running |-> [p \in PipeReaders |-> TRUE],
     bytesRead |-> [p \in PipeReaders |-> -1],
     processed |-> [p \in PipeReaders |-> <<>>]]

pipeFrame ==
    <<runwayVars, concVars, flightVars, schedVars, ctlVars, monitor,
      scheduleLog, locking>>

\* write(fd, &message, sizeof(message)): the whole record enters the pipe.
pipeWrite(p, record) ==
    /\ billing.writerOpen[p]
    /\ billing.written[p] < MaxPiped
    /\ billing' = [billing EXCEPT !.stream[p] = @ \o record,
                                  !.written[p] = @ + 1]
    /\ UNCHANGED pipeFrame

\* FlightScheduler::updateFlights: the AVN_CREATED message of a new AVN.
sendAvnCreated(avnId, amount) ==
    pipeWrite("AVNGenerator", <<"AVN_CREATED", avnId, amount>>)

\* AirlinePortal::payAVN, where its third lock of cout_mutex lets it
\* reach the write.
sendPaymentRequest(avnId, amount) ==
    /\ relock = "proceeds"
    /\ pipeWrite("StripePay", <<"PAYMENT_REQUEST", avnId, amount>>)

\* The process that holds the write end of the pipe of reader p ends.
writerExits(p) ==
    /\ billing.writerOpen[p]
    /\ billing' = [billing EXCEPT !.writerOpen[p] = FALSE]
    /\ UNCHANGED pipeFrame

\* The message read(2) leaves when it has moved the first k fields.
messageRead(stream, k) ==
    [i \in 1..RecordFields |-> IF i <= k THEN stream[i] ELSE DefaultMessage[i]]

\* One round of the loop of run() of reader p: the read returns, the loop
\* breaks on a count of 0 or less, and otherwise the message is handled.
\* answered is the types of message the body hands on; the write of the
\* answer then ends the process, the read end of that pipe being closed
\* everywhere.
readerRun(p, answered) ==
    /\ billing.running[p]
    /\ billing.stream[p] # <<>> \/ ~billing.writerOpen[p]
    /\ IF billing.stream[p] = <<>>
       THEN billing' = [billing EXCEPT !.bytesRead[p] = 0,
                                       !.running[p] = FALSE]
       ELSE \E k \in 1..RecordFields :
               /\ k <= Len(billing.stream[p])
               /\ LET message == messageRead(billing.stream[p], k)
                  IN  billing' =
                          [billing EXCEPT
                              !.stream[p] = SubSeq(@, k + 1, Len(@)),
                              !.bytesRead[p] = k,
                              !.processed[p] =
                                  IF message[1] \in answered
                                  THEN Append(@, [bytesRead |-> k,
                                                  message |-> message])
                                  ELSE @,
                              !.running[p] = message[1] \notin answered]
    /\ UNCHANGED pipeFrame

\* AVNGenerator::run: processMessage answers an AVN_CREATED message.
avnGeneratorRead == readerRun("AVNGenerator", {"AVN_CREATED"})

\* StripePay::run: processPayment is called for a PAYMENT_REQUEST.
stripePayRead == readerRun("StripePay", {"PAYMENT_REQUEST"})

InitPipe == OutsideBilling /\ billing = NewPipes

NextPipe ==
    \/ \E avnId \in PipedIds, amount \in PipedAmounts :
           sendAvnCreated(avnId, amount)
    \/ \E avnId \in PipedIds, amount \in PipedAmounts :
           sendPaymentRequest(avnId, amount)
    \/ \E p \in PipeReaders : writerExits(p)
    \/ avnGeneratorRead
    \/ stripePayRead

SpecPipe == InitPipe /\ [][NextPipe]_vars

(***************************************************************************)
(* C35: a pipe reader processes a message only when a read has returned    *)
(* one complete fixed-size record: the contents of a read that returned    *)
(* fewer bytes are never processed as a message, and a read that returned  *)
(* end-of-file makes the reader loop exit.                                 *)
(***************************************************************************)
C35_WholeRecordsOnly ==
    \A p \in PipeReaders :
        /\ \A i \in DOMAIN billing.processed[p] :
               billing.processed[p][i].bytesRead = RecordFields
        /\ billing.bytesRead[p] = 0 => ~billing.running[p]


(***************************************************************************)
(* C36: in every reachable state an aircraft's own assigned-runway field   *)
(* names runway r only if the occupant of r is that aircraft: once the     *)
(* runway has been released or force-closed, the aircraft records no       *)
(* assigned runway.                                                        *)
(***************************************************************************)
C36_AssignedRunwayIsOccupied ==
    \A a \in DOMAIN aircraft :
        aircraft[a].assignedRunway # Null
            => runways[aircraft[a].assignedRunway].assignedAircraft = a


(***************************************************************************)
(* The monitor and a flight that follows its plan.  updateSimulation hands *)
(* every active aircraft to the monitor once a tick of at most 0.1 s, and  *)
(* the steps of a flight plan are at least 7.5 s apart, so the 10 samples  *)
(* the monitor retains were all taken in the current phase when the next   *)
(* transition comes.  Nothing else changes the speed here.                 *)
(***************************************************************************)
MaxPlannedTicks == 45

\* SimulationController::updateSimulation: m_speedMonitor->update
plannedTick(a) == monitorBefore(a, MaxPlannedTicks)

\* The retained samples of a were all taken at its current speed.
Settled(a) ==
    /\ Len(monitor.speedHistory[a]) = MAX_HISTORY
    /\ \A i \in DOMAIN monitor.speedHistory[a] :
           monitor.speedHistory[a][i] = aircraft[a].currentSpeed

\* Flight::executeFlightPlanStep: the transition of the next plan step.
plannedTransition(a) == Settled(a) /\ transitionToNextPhase(a)

NextPlanned ==
    \/ \E a \in DOMAIN aircraft : plannedTick(a)
    \/ \E a \in DOMAIN aircraft : plannedTransition(a)

SpecPlanned == InitMonitor /\ [][NextPlanned]_vars

\* Every aircraft is inside the speed limits of its phase.
C37_WithinBounds ==
    \A a \in DOMAIN aircraft :
        /\ aircraft[a].currentSpeed >= SPEED_LIMITS[aircraft[a].currentPhase].min
        /\ aircraft[a].currentSpeed <= SPEED_LIMITS[aircraft[a].currentPhase].max

(***************************************************************************)
(* C37: an aircraft whose speed lies within the bounds of its current      *)
(* phase at every monitoring tick, and whose speed changes only through    *)
(* the re-sampling that accompanies its planned phase transitions, is      *)
(* never issued an AVN.  Here every speed is within the bounds of the      *)
(* phase in every state and is changed by the planned transitions alone.   *)
(***************************************************************************)
C37_CompliantNeverCited ==
    /\ C37_WithinBounds
    /\ \A a \in DOMAIN aircraft : monitor.activeAVNs[a] = <<>>


(***************************************************************************)
(* The flight generation thread and one airline.  Each round of            *)
(* flightGenerationLoop calls scheduleNewFlights, which asks the airline   *)
(* for NORTH, SOUTH, EAST and WEST in that order at the current time; the  *)
(* clock moves between rounds.                                             *)
(***************************************************************************)
GeneratingAirlines == {1}

\* The direction the round asks for next, or Null when the round is over.
NextAsked ==
    IF lastCall.op = "none" THEN "NORTH"
    ELSE IF lastCall.currentTime < simTime THEN "NORTH"
    ELSE IF lastCall.direction = "NORTH" THEN "SOUTH"
    ELSE IF lastCall.direction = "SOUTH" THEN "EAST"
    ELSE IF lastCall.direction = "EAST" THEN "WEST"
    ELSE Null

\* SimulationController::scheduleNewFlights: the next call of its body.
askAirline(i) ==
    /\ NextAsked # Null
    /\ scheduleFlightIfNeeded(i, NextAsked)

\* The round is over and the clock has moved when the next one starts.
nextRound ==
    /\ AirlineIdle
    /\ NextAsked = Null
    /\ airlineClock

NextGeneration ==
    \/ \E i \in GeneratingAirlines : askAirline(i)
    \/ nextRound

SpecGeneration == InitAirline /\ [][NextGeneration]_vars

\* The generation thread keeps running its rounds.
SpecGenerationFair == SpecGeneration /\ WF_vars(NextGeneration)

(***************************************************************************)
(* C38: for every airline that stays below its fleet capacity and every    *)
(* direction d, a flight for direction d is eventually scheduled as the    *)
(* clock advances and the generator keeps polling every cycle: scheduling  *)
(* flights for one direction never permanently prevents scheduling for     *)
(* another.                                                                *)
(***************************************************************************)
C38_EveryDirectionScheduled ==
    \A i \in GeneratingAirlines, direction \in {"NORTH", "SOUTH", "EAST", "WEST"} :
        <>(\/ ~canScheduleFlight(i)
           \/ \E e \in scheduleLog :
                  e.airline = i /\ e.direction = direction)


(***************************************************************************)
(* FlightScheduler::processAVNPayment on its own: after the first          *)
(* updateFlights of a run, a caller pays any id with any amount.  lastCall *)
(* keeps the arguments, the list the call found and what the call reports. *)
(***************************************************************************)
\* The ids a caller may name: those issued and one that was never issued.
PaymentIds == IssuedIds \cup {999}

\* The amounts a caller may offer: nothing, and the total of an AVN of the
\* list, one less and one more.
PaymentAmounts ==
    {0} \cup UNION {{billing.allAVNs[i].totalAmount - 1,
                     billing.allAVNs[i].totalAmount,
                     billing.allAVNs[i].totalAmount + 1} :
                       i \in DOMAIN billing.allAVNs}

\* What processAVNPayment writes to cout.
processAVNPaymentReports(B, avnId, amount) ==
    LET i == FirstWithId(B.allAVNs, avnId, 1)
    IN  IF i = 0 THEN "not found"
        ELSE IF amount >= B.allAVNs[i].totalAmount THEN "processed"
        ELSE "insufficient"

callProcessAVNPayment(avnId, amount) ==
    /\ billing' = processAVNPayment(billing, avnId, amount)
    /\ lastCall' = [op |-> "processAVNPayment", avnId |-> avnId,
                    amount |-> amount, pre |-> billing.allAVNs,
                    reports |-> processAVNPaymentReports(billing, avnId,
                                                         amount)]
    /\ UNCHANGED <<runways, aircraft, steadyNow, subject, granted, concVars,
                   flightVars, schedVars, ctlVars, monitor, scheduleLog,
                   locking>>

InitPayment ==
    /\ OutsideBilling
    /\ \E arrival \in BillingAirlines, departure \in {"FedEx"} :
       \E B \in BillingUpdateFrom(
                    [BillingOf(<<ArrivalOf(arrival), DepartureOf(departure)>>)
                        EXCEPT !.now = 1], 1) :
           billing = B

NextPayment ==
    \E avnId \in PaymentIds, amount \in PaymentAmounts :
        callProcessAVNPayment(avnId, amount)

SpecPayment == InitPayment /\ [][NextPayment]_vars

\* The payment of this step is for the id of AVN i and covers its total.
C39_Covers(i) ==
    /\ lastCall'.op = "processAVNPayment"
    /\ lastCall'.avnId = billing.allAVNs[i].id
    /\ lastCall'.amount >= billing.allAVNs[i].totalAmount

\* The payment of this step names an id no AVN has, or offers less than
\* the total of the AVN it names.
C39_Refused ==
    /\ lastCall'.op = "processAVNPayment"
    /\ \/ \A i \in DOMAIN billing.allAVNs :
              billing.allAVNs[i].id # lastCall'.avnId
       \/ \E i \in DOMAIN billing.allAVNs :
              /\ billing.allAVNs[i].id = lastCall'.avnId
              /\ \A j \in 1..(i - 1) :
                     billing.allAVNs[j].id # lastCall'.avnId
              /\ lastCall'.amount < billing.allAVNs[i].totalAmount

(***************************************************************************)
(* C39: an AVN's status changes only from Unpaid to Paid, and only through *)
(* a payment for its id whose amount is at least the AVN's total; a        *)
(* payment with a smaller amount or an unknown id reports failure and      *)
(* changes no AVN, and a Paid AVN never becomes Unpaid again.              *)
(***************************************************************************)
C39_PaidOnlyByPayment ==
    [][/\ DOMAIN billing'.allAVNs = DOMAIN billing.allAVNs
       /\ \A i \in DOMAIN billing.allAVNs :
              /\ billing'.allAVNs[i].status # billing.allAVNs[i].status
                     => /\ billing.allAVNs[i].status = "UNPAID"
                        /\ billing'.allAVNs[i].status = "PAID"
                        /\ C39_Covers(i)
              /\ billing.allAVNs[i].status = "PAID"
                     => billing'.allAVNs[i].status = "PAID"
       /\ C39_Refused
              => /\ lastCall'.reports \in {"insufficient", "not found"}
                 /\ billing'.allAVNs = billing.allAVNs]_vars

\* C39: one AVN has been paid and a later payment that offered less than
\* the total of another has been refused, leaving that AVN unpaid.
C39_Witness ==
    /\ lastCall.op = "processAVNPayment"
    /\ lastCall.reports = "insufficient"
    /\ \E i, j \in DOMAIN billing.allAVNs :
          /\ billing.allAVNs[i].status = "PAID"
          /\ billing.allAVNs[j].status = "UNPAID"
          /\ billing.allAVNs[j].id = lastCall.avnId
          /\ lastCall.amount = billing.allAVNs[j].totalAmount - 1


\* Every aircraft of a fleet is the aircraft of a flight of m_flights.
C40_FleetFlown ==
    \A i \in DOMAIN airlines : \A a \in airlines[i].fleet :
        \E f \in DOMAIN flights : flights[f].aircraft = a

====
